---- MODULE Spec2Model ----
(***************************************************************************)
(* MPC-Plus: the extraction-and-normalisation pipeline.                    *)
(*                                                                         *)
(* Strings that the code tests with `in`, re.search or split are modelled  *)
(* as sequences of one-character strings, so that substring containment,   *)
(* regular-expression search and decimal parsing are computed the way the  *)
(* Python code computes them.  Decimal values are integers counted in      *)
(* hundredths (Decimal('0.98') is 98, Decimal(-1) is -100).                *)
(***************************************************************************)
EXTENDS Integers, Sequences, FiniteSets, TLC

VARIABLES folder, files, creds, caller,
          pc, data_path, uploader, rec, err, trace,
          processed_folders, success_count, failure_count

vars == <<folder, files, creds, caller, pc, data_path, uploader, rec, err,
          trace, processed_folders, success_count, failure_count>>

(***************************************************************************)
(* String helpers (Python str operations on character sequences)           *)
(***************************************************************************)
Digits == {"0","1","2","3","4","5","6","7","8","9"}

DigitVal(c) ==
    CASE c = "0" -> 0 [] c = "1" -> 1 [] c = "2" -> 2 [] c = "3" -> 3
      [] c = "4" -> 4 [] c = "5" -> 5 [] c = "6" -> 6 [] c = "7" -> 7
      [] c = "8" -> 8 [] c = "9" -> 9

\* int(s) for a non-empty string of digits
RECURSIVE IntOf(_)
IntOf(s) == IF Len(s) = 0 THEN 0
            ELSE 10 * IntOf(SubSeq(s, 1, Len(s) - 1)) + DigitVal(s[Len(s)])

AllDigits(s) == \A i \in 1..Len(s) : s[i] \in Digits

\* Python `t in s`
Contains(s, t) ==
    \E i \in 1..(Len(s) - Len(t) + 1) : SubSeq(s, i, i + Len(t) - 1) = t

\* position of the first occurrence of t in s, 0 when there is none
Find(s, t) ==
    IF Contains(s, t)
    THEN CHOOSE i \in 1..(Len(s) - Len(t) + 1) :
            /\ SubSeq(s, i, i + Len(t) - 1) = t
            /\ \A j \in 1..(i - 1) : SubSeq(s, j, j + Len(t) - 1) /= t
    ELSE 0

\* str.strip()
RECURSIVE LStrip(_)
LStrip(s) == IF Len(s) > 0 /\ s[1] = " " THEN LStrip(Tail(s)) ELSE s

RECURSIVE RStrip(_)
RStrip(s) == IF Len(s) > 0 /\ s[Len(s)] = " "
             THEN RStrip(SubSeq(s, 1, Len(s) - 1)) ELSE s

Strip(s) == RStrip(LStrip(s))

(***************************************************************************)
(* String literals of the source                                           *)
(***************************************************************************)
\* the beam-type tokens, as character sequences
BeamTypes == {"6e", "9e", "12e", "16e", "2.5x", "10x", "15x", "6x"}

TokenChars ==
    ( "6e" :> <<"6","e">> @@
      "9e" :> <<"9","e">> @@
      "12e" :> <<"1","2","e">> @@
      "16e" :> <<"1","6","e">> @@
      "2.5x" :> <<"2",".","5","x">> @@
      "10x" :> <<"1","0","x">> @@
      "15x" :> <<"1","5","x">> @@
      "6x" :> <<"6","x">> )

\* the string literals of the code and of the folder names
Str ==
    [ sep |->
          <<"/">>,
      Results_csv |->
          <<"R","e","s","u","l","t","s",".","c","s","v">>,
      Check_xml |->
          <<"C","h","e","c","k",".","x","m","l">>,
      UNKNOWN |->
          <<"U","N","K","N","O","W","N">>,
      SN |->
          <<"S","N">>,
      BeamCheckTemplate |->
          <<"B","e","a","m","C","h","e","c","k","T","e","m","p","l","a","t",
          "e">>,
      MLCLeaf |->
          <<"M","L","C","L","e","a","f">>,
      MLCBacklashLeaf |->
          <<"M","L","C","B","a","c","k","l","a","s","h","L","e","a","f">>,
      host |->
          <<"N","D","S","-","W","K","S","-">>,
      serial |->
          <<"S","N","6","5","4","3">>,
      dash |->
          <<"-">>,
      stamp |->
          <<"2","0","2","5","-","0","9","-","1","9","-","0","7","-","4","1",
          "-","4","9">>,
      seqno |->
          <<"-","0","0","0","4","-">>,
      GeometryCheckTemplate |->
          <<"G","e","o","m","e","t","r","y","C","h","e","c","k","T","e","m",
          "p","l","a","t","e">>,
      MVkVEnhancedCouch |->
          <<"M","V","k","V","E","n","h","a","n","c","e","d","C","o","u","c",
          "h">>,
      FFF |->
          <<"F","F","F">>,
      EnhancedMLCCheckTemplate |->
          <<"E","n","h","a","n","c","e","d","M","L","C","C","h","e","c","k",
          "T","e","m","p","l","a","t","e">>,
      BeamCheckTemplate2_5x |->
          <<"B","e","a","m","C","h","e","c","k","T","e","m","p","l","a","t",
          "e","2",".","5","x">>,
      Results_xml |->
          <<"R","e","s","u","l","t","s",".","x","m","l">>,
      SetBeam |->
          <<"S","e","t","B","e","a","m">>,
      dot_xml |->
          <<".","x","m","l">>,
      SetBeam_6x_xml |->
          <<"S","e","t","B","e","a","m","-","6","x",".","x","m","l">> ]

\* os.path.join(a, b) for a relative b and an a that does not end in a separator
Join(a, b) == a \o Str.sep \o b

\* os.path.dirname(p)
RECURSIVE dirname(_)
dirname(p) == IF Len(p) = 0 THEN p
              ELSE IF p[Len(p)] = "/" THEN SubSeq(p, 1, Len(p) - 1)
              ELSE dirname(SubSeq(p, 1, Len(p) - 1))

(***************************************************************************)
(* Path metadata: re.search and datetime.strptime                          *)
(***************************************************************************)
\* lengths and dash positions of r'\d{4}-\d{2}-\d{2}-\d{2}-\d{2}-\d{2}'
DatePatternLen == 19
DateDashAt == {5, 8, 11, 14, 17}

DateMatchAt(path, i) ==
    /\ i + DatePatternLen - 1 <= Len(path)
    /\ \A k \in 1..DatePatternLen :
          IF k \in DateDashAt THEN path[i + k - 1] = "-"
          ELSE path[i + k - 1] \in Digits

HasDate(path) == \E i \in 1..Len(path) : DateMatchAt(path, i)

\* the text re.search returns: the leftmost match
DateMatch(path) ==
    LET i == CHOOSE i \in 1..Len(path) :
                /\ DateMatchAt(path, i)
                /\ \A j \in 1..(i - 1) : ~DateMatchAt(path, j)
    IN SubSeq(path, i, i + DatePatternLen - 1)

IsLeap(y) == (y % 4 = 0 /\ y % 100 /= 0) \/ y % 400 = 0

DaysIn(y, m) == IF m \in {4, 6, 9, 11} THEN 30
                ELSE IF m = 2 THEN (IF IsLeap(y) THEN 29 ELSE 28)
                ELSE 31

\* the fields datetime.strptime(date_str, "%Y-%m-%d-%H-%M-%S") reads
DateFields(d) ==
    [year   |-> IntOf(SubSeq(d, 1, 4)),   month  |-> IntOf(SubSeq(d, 6, 7)),
     day    |-> IntOf(SubSeq(d, 9, 10)),  hour   |-> IntOf(SubSeq(d, 12, 13)),
     minute |-> IntOf(SubSeq(d, 15, 16)), second |-> IntOf(SubSeq(d, 18, 19))]

\* strptime raises ValueError on fields that are not a date
StrptimeOk(f) ==
    /\ f.year >= 1
    /\ f.month \in 1..12
    /\ f.day \in 1..DaysIn(f.year, f.month)
    /\ f.hour \in 0..23
    /\ f.minute \in 0..59
    /\ f.second \in 0..61

NoDate == [none |-> TRUE]

\* EBeamModel._getDateFromPathName / AbstractBeamModel._getDateFromPathName:
\* the datetime, or ValueError
getDateFromPathName(path) ==
    IF ~HasDate(path) THEN [raises |-> "ValueError", value |-> NoDate]
    ELSE LET f == DateFields(DateMatch(path))
         IN IF StrptimeOk(f) THEN [raises |-> "none", value |-> f]
            ELSE [raises |-> "ValueError", value |-> NoDate]

\* XBeamModel._getDateFromPathName: a placeholder whose body is `pass`
XBeam_getDateFromPathName(path) == [raises |-> "none", value |-> NoDate]

\* r'SN\d+' matches at i
SNMatchAt(path, i) ==
    /\ i + 2 <= Len(path)
    /\ path[i] = "S" /\ path[i + 1] = "N" /\ path[i + 2] \in Digits

HasSN(path) == \E i \in 1..Len(path) : SNMatchAt(path, i)

\* the digits of the leftmost match, taken greedily
RECURSIVE DigitRun(_, _)
DigitRun(path, i) ==
    IF i <= Len(path) /\ path[i] \in Digits
    THEN <<path[i]>> \o DigitRun(path, i + 1) ELSE <<>>

SNDigits(path) ==
    LET i == CHOOSE i \in 1..Len(path) :
                /\ SNMatchAt(path, i)
                /\ \A j \in 1..(i - 1) : ~SNMatchAt(path, j)
    IN DigitRun(path, i + 2)

\* DataProcessor._extract_machine_id: 'SN<digits>' or 'UNKNOWN'
extract_machine_id(path) ==
    IF HasSN(path) THEN Str.SN \o SNDigits(path) ELSE Str.UNKNOWN

\* AbstractBeamModel._getSNFromPathName: 'SN<digits>' or ValueError
getSNFromPathName(path) ==
    IF HasSN(path) THEN [raises |-> "none", value |-> Str.SN \o SNDigits(path)]
    ELSE [raises |-> "ValueError", value |-> <<>>]

(***************************************************************************)
(* Record variants (models/*.py)                                           *)
(***************************************************************************)
\* Decimal('0.0'), the value every numeric attribute is constructed with
DecimalZero == 0
\* Decimal(-1), in hundredths
DecimalMinusOne == -100

EBeamNumeric == {"relative_uniformity", "relative_output"}

XBeamNumeric == {"relative_uniformity", "relative_out", "baseline_iso_x",
                 "baseline_iso_y", "iso_x", "iso_y"}

GeoScalar ==
    {"IsoCenterSize", "IsoCenterMVOffset", "IsoCenterKVOffset",
     "relative_output", "relative_uniformity", "center_shift",
     "CollimationRotationOffset", "GantryAbsolute", "GantryRelative",
     "CouchMaxPositionError", "CouchLat", "CouchLng", "CouchVrt",
     "CouchRtnFine", "CouchRtnLarge", "RotationInducedCouchShiftFullRange",
     "MaxOffsetA", "MaxOffsetB", "MeanOffsetA", "MeanOffsetB",
     "MLCBacklashMaxA", "MLCBacklashMaxB", "MLCBacklashMeanA",
     "MLCBacklashMeanB", "JawX1", "JawX2", "JawY1", "JawY2",
     "JawParallelismX1", "JawParallelismX2", "JawParallelismY1",
     "JawParallelismY2"}

GeoKeyed == {"MLCLeavesA", "MLCLeavesB", "MLCBacklashA", "MLCBacklashB"}

\* range(11, 51): the leaf keys a Geo6xfffModel is constructed with
LeafLo == 11
LeafHi == 50
ModelLeafRange == LeafLo..LeafHi

\* attributes that have a set_<name> method, per class
Setters(variant) ==
    CASE variant = "EBeamModel" ->
            {"type", "path", "date", "machine_id", "note"} \cup EBeamNumeric
      [] variant = "XBeamModel" ->
            {"type", "date", "relative_uniformity", "relative_out",
             "baseline_iso", "iso_center"}
      [] variant = "Geo6xfffModel" ->
            {"type", "path", "date", "machine_SN", "baseline", "image_model",
             "symmetry_horizontal", "symmetry_vertical",
             "flatness_horizontal", "flatness_vertical",
             "horizontal_profile_graph", "vertical_profile_graph"}
            \cup GeoScalar
            \cup {"MLCLeafA", "MLCLeafB", "MLCBacklashA", "MLCBacklashB"}
      [] variant = "ImageModel" ->
            {"type", "path", "date", "machine_SN", "baseline", "image_model",
             "symmetry_horizontal", "symmetry_vertical",
             "flatness_horizontal", "flatness_vertical",
             "horizontal_profile_graph", "vertical_profile_graph",
             "image", "image_name"}
      [] OTHER -> {}

\* attributes that have a get_<name> method, per class
Getters(variant) ==
    CASE variant = "EBeamModel" ->
            {"type", "date", "path", "machine_id", "note"} \cup EBeamNumeric
      [] variant = "XBeamModel" ->
            {"type", "date"} \cup XBeamNumeric
      [] variant = "Geo6xfffModel" ->
            {"type", "date", "path", "machine_SN", "baseline", "image_model",
             "symmetry_horizontal", "symmetry_vertical",
             "flatness_horizontal", "flatness_vertical",
             "horizontal_profile_graph", "vertical_profile_graph"}
            \cup GeoScalar
            \cup {"MLCLeafA", "MLCLeafB", "MLCBacklashA", "MLCBacklashB"}
      [] variant = "ImageModel" ->
            {"type", "path", "date", "machine_SN", "baseline", "image_model",
             "symmetry_horizontal", "symmetry_vertical",
             "flatness_horizontal", "flatness_vertical",
             "horizontal_profile_graph", "vertical_profile_graph",
             "image", "image_name"}
      [] OTHER -> {}

NoKeyed == [c \in {} |-> {}]

NoRecord == [variant |-> "None"]

\* EBeamModel()
EBeamModel ==
    [variant |-> "EBeamModel", type |-> "", path |-> <<>>, date |-> NoDate,
     machine_id |-> <<>>, baseline |-> "absent",
     num |-> [f \in EBeamNumeric |-> DecimalZero], keyed |-> NoKeyed]

\* XBeamModel(): no path and no machine id attribute
XBeamModel ==
    [variant |-> "XBeamModel", type |-> "", path |-> <<>>, date |-> NoDate,
     machine_id |-> <<>>, baseline |-> "absent",
     num |-> [f \in XBeamNumeric |-> DecimalZero], keyed |-> NoKeyed]

\* Geo6xfffModel(): AbstractBeamModel.__init__ and the geometry attributes
Geo6xfffModel ==
    [variant |-> "Geo6xfffModel", type |-> "", path |-> <<>>, date |-> NoDate,
     machine_id |-> <<>>, baseline |-> "False",
     num |-> [f \in GeoScalar |-> DecimalZero],
     keyed |-> [c \in GeoKeyed |-> [i \in ModelLeafRange |-> DecimalZero]]]

\* ImageModel(): AbstractBeamModel.__init__, no numeric attribute of its own
ImageModel ==
    [variant |-> "ImageModel", type |-> "", path |-> <<>>, date |-> NoDate,
     machine_id |-> <<>>, baseline |-> "False",
     num |-> [f \in {} |-> DecimalZero], keyed |-> NoKeyed]

\* a setter that adds the value to the one already held
SetNum_accumulates(r, field, v) ==
    IF field \in Setters(r.variant) /\ field \in DOMAIN r.num
    THEN [raises |-> "none", rec |-> [r EXCEPT !.num[field] = @ + v]]
    ELSE [raises |-> "AttributeError", rec |-> r]

\* model.set_<field>(v) for a numeric attribute: AttributeError without the method
SetNum(r, field, v) ==
    IF field \in Setters(r.variant) /\ field \in DOMAIN r.num
    THEN [raises |-> "none", rec |-> [r EXCEPT !.num[field] = v]]
    ELSE [raises |-> "AttributeError", rec |-> r]

\* set_MLCLeafA(index, v) and its siblings: self._dict[f"Leaf{index}"] = v,
\* which adds the key when it is not there
SetKeyed(r, coll, index, v) ==
    IF coll \in DOMAIN r.keyed
    THEN [raises |-> "none",
          rec |-> [r EXCEPT !.keyed[coll] =
                      [i \in (DOMAIN r.keyed[coll]) \cup {index} |->
                          IF i = index THEN v ELSE r.keyed[coll][i]]]]
    ELSE [raises |-> "AttributeError", rec |-> r]

(***************************************************************************)
(* Decimal(value) and int(value)                                           *)
(***************************************************************************)
Signs == {"+", "-"}

Unsigned(s) == IF Len(s) > 0 /\ s[1] \in Signs THEN Tail(s) ELSE s

SignOf(s) == IF Len(s) > 0 /\ s[1] = "-" THEN -1 ELSE 1

DotAt(s) == Find(s, <<".">>)

IntPart(s) == IF DotAt(s) = 0 THEN s ELSE SubSeq(s, 1, DotAt(s) - 1)

FracPart(s) == IF DotAt(s) = 0 THEN <<>> ELSE SubSeq(s, DotAt(s) + 1, Len(s))

\* digits after the point, as hundredths (exports carry at most two places)
Hundredths(frac) ==
    CASE Len(frac) = 0 -> 0
      [] Len(frac) = 1 -> 10 * IntOf(frac)
      [] Len(frac) = 2 -> IntOf(frac)

\* Decimal(s) accepts [sign] digits [. digits] with at least one digit
DecimalOk(s) ==
    LET u == Unsigned(s)
    IN /\ AllDigits(IntPart(u)) /\ AllDigits(FracPart(u))
       /\ Len(IntPart(u)) + Len(FracPart(u)) > 0

\* try: Decimal(value) except InvalidOperation: Decimal(-1)
DecimalOrSentinel(s) ==
    IF DecimalOk(s)
    THEN LET u == Unsigned(s)
         IN SignOf(s) * (100 * IntOf(IntPart(u)) + Hundredths(FracPart(u)))
    ELSE DecimalMinusOne

\* int(s): [sign] digits, ValueError otherwise
IntOk(s) == LET u == Unsigned(s) IN Len(u) > 0 /\ AllDigits(u)

IntValue(s) == SignOf(s) * IntOf(Unsigned(s))

(***************************************************************************)
(* Field-name patterns of data_extractor.py                                *)
(***************************************************************************)
\* the substrings the extraction chains test with `in`
Pattern ==
    [ BeamOutputChange |->
          <<"B","e","a","m","O","u","t","p","u","t","C","h","a","n","g",
          "e">>,
      BeamUniformityChange |->
          <<"B","e","a","m","U","n","i","f","o","r","m","i","t","y","C","h",
          "a","n","g","e">>,
      BeamCenterShift |->
          <<"B","e","a","m","C","e","n","t","e","r","S","h","i","f","t">>,
      IsoCenterSize |->
          <<"I","s","o","C","e","n","t","e","r","S","i","z","e">>,
      IsoCenterMVOffset |->
          <<"I","s","o","C","e","n","t","e","r","M","V","O","f","f","s","e",
          "t">>,
      IsoCenterKVOffset |->
          <<"I","s","o","C","e","n","t","e","r","K","V","O","f","f","s","e",
          "t">>,
      CollimationRotationOffset |->
          <<"C","o","l","l","i","m","a","t","i","o","n","R","o","t","a","t",
          "i","o","n","O","f","f","s","e","t">>,
      GantryAbsolute |->
          <<"G","a","n","t","r","y","A","b","s","o","l","u","t","e">>,
      GantryRelative |->
          <<"G","a","n","t","r","y","R","e","l","a","t","i","v","e">>,
      CouchMaxPositionError |->
          <<"C","o","u","c","h","M","a","x","P","o","s","i","t","i","o","n",
          "E","r","r","o","r">>,
      CouchLat |->
          <<"C","o","u","c","h","L","a","t">>,
      CouchLng |->
          <<"C","o","u","c","h","L","n","g">>,
      CouchVrt |->
          <<"C","o","u","c","h","V","r","t">>,
      CouchRtnFine |->
          <<"C","o","u","c","h","R","t","n","F","i","n","e">>,
      CouchRtnLarge |->
          <<"C","o","u","c","h","R","t","n","L","a","r","g","e">>,
      RotationInducedCouchShiftFullRange |->
          <<"R","o","t","a","t","i","o","n","I","n","d","u","c","e","d","C",
          "o","u","c","h","S","h","i","f","t","F","u","l","l","R","a","n",
          "g","e">>,
      MLCLeavesA_MLCLeaf |->
          <<"M","L","C","L","e","a","v","e","s","A","/","M","L","C","L","e",
          "a","f">>,
      sl_MLCLeavesA_MLCLeaf |->
          <<"/","M","L","C","L","e","a","v","e","s","A","/","M","L","C","L",
          "e","a","f">>,
      MLCLeavesB_MLCLeaf |->
          <<"M","L","C","L","e","a","v","e","s","B","/","M","L","C","L","e",
          "a","f">>,
      sl_MLCLeavesB_MLCLeaf |->
          <<"/","M","L","C","L","e","a","v","e","s","B","/","M","L","C","L",
          "e","a","f">>,
      MLCMaxOffsetA |->
          <<"M","L","C","M","a","x","O","f","f","s","e","t","A">>,
      MaxOffsetA |->
          <<"M","a","x","O","f","f","s","e","t","A">>,
      MLCMaxOffsetB |->
          <<"M","L","C","M","a","x","O","f","f","s","e","t","B">>,
      MaxOffsetB |->
          <<"M","a","x","O","f","f","s","e","t","B">>,
      MLCMeanOffsetA |->
          <<"M","L","C","M","e","a","n","O","f","f","s","e","t","A">>,
      MeanOffsetA |->
          <<"M","e","a","n","O","f","f","s","e","t","A">>,
      MLCMeanOffsetB |->
          <<"M","L","C","M","e","a","n","O","f","f","s","e","t","B">>,
      MeanOffsetB |->
          <<"M","e","a","n","O","f","f","s","e","t","B">>,
      MLCBacklashLeavesA_MLCBacklashLeaf |->
          <<"M","L","C","B","a","c","k","l","a","s","h","L","e","a","v","e",
          "s","A","/","M","L","C","B","a","c","k","l","a","s","h","L","e",
          "a","f">>,
      sl_MLCBacklashLeavesA_MLCBacklashLeaf |->
          <<"/","M","L","C","B","a","c","k","l","a","s","h","L","e","a","v",
          "e","s","A","/","M","L","C","B","a","c","k","l","a","s","h","L",
          "e","a","f">>,
      MLCBacklashLeavesB_MLCBacklashLeaf |->
          <<"M","L","C","B","a","c","k","l","a","s","h","L","e","a","v","e",
          "s","B","/","M","L","C","B","a","c","k","l","a","s","h","L","e",
          "a","f">>,
      sl_MLCBacklashLeavesB_MLCBacklashLeaf |->
          <<"/","M","L","C","B","a","c","k","l","a","s","h","L","e","a","v",
          "e","s","B","/","M","L","C","B","a","c","k","l","a","s","h","L",
          "e","a","f">>,
      MLCBacklashMaxA |->
          <<"M","L","C","B","a","c","k","l","a","s","h","M","a","x","A">>,
      MLCBacklashMaxB |->
          <<"M","L","C","B","a","c","k","l","a","s","h","M","a","x","B">>,
      MLCBacklashMeanA |->
          <<"M","L","C","B","a","c","k","l","a","s","h","M","e","a","n",
          "A">>,
      MLCBacklashMeanB |->
          <<"M","L","C","B","a","c","k","l","a","s","h","M","e","a","n",
          "B">>,
      JawX1 |->
          <<"J","a","w","X","1">>,
      JawX2 |->
          <<"J","a","w","X","2">>,
      JawY1 |->
          <<"J","a","w","Y","1">>,
      JawY2 |->
          <<"J","a","w","Y","2">>,
      JawParallelismX1 |->
          <<"J","a","w","P","a","r","a","l","l","e","l","i","s","m","X",
          "1">>,
      JawParallelismX2 |->
          <<"J","a","w","P","a","r","a","l","l","e","l","i","s","m","X",
          "2">>,
      JawParallelismY1 |->
          <<"J","a","w","P","a","r","a","l","l","e","l","i","s","m","Y",
          "1">>,
      JawParallelismY2 |->
          <<"J","a","w","P","a","r","a","l","l","e","l","i","s","m","Y",
          "2">> ]

(***************************************************************************)
(* The file system seen by open() and os.path.exists()                     *)
(*   files : path -> content; a CSV content is                             *)
(*   [kind |-> "csv", header |-> BOOLEAN, rows |-> Seq(row)] with          *)
(*   row = [name, value, short]; short rows have no value cell, so         *)
(*   DictReader gives them the value None.                                 *)
(***************************************************************************)
exists(fs, path) == path \in DOMAIN fs

\* a path below a regular file cannot be opened: NotADirectoryError
BelowFile(fs, path) ==
    \E q \in DOMAIN fs : /\ Len(q) < Len(path)
                         /\ SubSeq(path, 1, Len(q)) = q
                         /\ path[Len(q) + 1] = "/"

\* the exception open(path) raises, "none" when it opens
OpenRaises(fs, path) ==
    IF exists(fs, path) THEN "none"
    ELSE IF BelowFile(fs, path) THEN "NotADirectoryError"
    ELSE "FileNotFoundError"

\* os.path.getsize(path) == 0
IsEmptyFile(fs, path) ==
    /\ fs[path].kind = "csv" /\ ~fs[path].header /\ fs[path].rows = <<>>

(***************************************************************************)
(* data_extractor: the row loop                                            *)
(***************************************************************************)
\* the electron chain with both patterns written to relative_output
EChain_one_field(r, name, v) ==
    IF Contains(name, Pattern.BeamOutputChange) THEN SetNum(r, "relative_output", v)
    ELSE IF Contains(name, Pattern.BeamUniformityChange)
         THEN SetNum(r, "relative_output", v)
    ELSE [raises |-> "none", rec |-> r]

\* eModelExtraction: the if/elif chain on the row name
EChain(r, name, v) ==
    IF Contains(name, Pattern.BeamOutputChange) THEN SetNum(r, "relative_output", v)
    ELSE IF Contains(name, Pattern.BeamUniformityChange)
         THEN SetNum(r, "relative_uniformity", v)
    ELSE [raises |-> "none", rec |-> r]

\* xModelExtraction: the if/elif chain on the row name
XChain(r, name, v) ==
    IF Contains(name, Pattern.BeamOutputChange) THEN SetNum(r, "relative_output", v)
    ELSE IF Contains(name, Pattern.BeamUniformityChange)
         THEN SetNum(r, "relative_uniformity", v)
    ELSE IF Contains(name, Pattern.BeamCenterShift) THEN SetNum(r, "center_shift", v)
    ELSE [raises |-> "none", rec |-> r]

\* geoModelExtraction: the if/elif chain, in source order; kind "leaf" and
\* "backlash" are the indexed branches, which parse the index out of the name
GeoChain ==
    <<
      [kind |-> "scalar", field |-> "IsoCenterSize",
       pats |-> {Pattern.IsoCenterSize}],
      [kind |-> "scalar", field |-> "IsoCenterMVOffset",
       pats |-> {Pattern.IsoCenterMVOffset}],
      [kind |-> "scalar", field |-> "IsoCenterKVOffset",
       pats |-> {Pattern.IsoCenterKVOffset}],
      [kind |-> "scalar", field |-> "relative_output",
       pats |-> {Pattern.BeamOutputChange}],
      [kind |-> "scalar", field |-> "relative_uniformity",
       pats |-> {Pattern.BeamUniformityChange}],
      [kind |-> "scalar", field |-> "center_shift",
       pats |-> {Pattern.BeamCenterShift}],
      [kind |-> "scalar", field |-> "CollimationRotationOffset",
       pats |-> {Pattern.CollimationRotationOffset}],
      [kind |-> "scalar", field |-> "GantryAbsolute",
       pats |-> {Pattern.GantryAbsolute}],
      [kind |-> "scalar", field |-> "GantryRelative",
       pats |-> {Pattern.GantryRelative}],
      [kind |-> "scalar", field |-> "CouchMaxPositionError",
       pats |-> {Pattern.CouchMaxPositionError}],
      [kind |-> "scalar", field |-> "CouchLat",
       pats |-> {Pattern.CouchLat}],
      [kind |-> "scalar", field |-> "CouchLng",
       pats |-> {Pattern.CouchLng}],
      [kind |-> "scalar", field |-> "CouchVrt",
       pats |-> {Pattern.CouchVrt}],
      [kind |-> "scalar", field |-> "CouchRtnFine",
       pats |-> {Pattern.CouchRtnFine}],
      [kind |-> "scalar", field |-> "CouchRtnLarge",
       pats |-> {Pattern.CouchRtnLarge}],
      [kind |-> "scalar", field |-> "RotationInducedCouchShiftFullRange",
       pats |-> {Pattern.RotationInducedCouchShiftFullRange}],
      [kind |-> "leaf", field |-> "MLCLeavesA",
       pats |-> {Pattern.MLCLeavesA_MLCLeaf, Pattern.sl_MLCLeavesA_MLCLeaf}],
      [kind |-> "leaf", field |-> "MLCLeavesB",
       pats |-> {Pattern.MLCLeavesB_MLCLeaf, Pattern.sl_MLCLeavesB_MLCLeaf}],
      [kind |-> "scalar", field |-> "MaxOffsetA",
       pats |-> {Pattern.MLCMaxOffsetA, Pattern.MaxOffsetA}],
      [kind |-> "scalar", field |-> "MaxOffsetB",
       pats |-> {Pattern.MLCMaxOffsetB, Pattern.MaxOffsetB}],
      [kind |-> "scalar", field |-> "MeanOffsetA",
       pats |-> {Pattern.MLCMeanOffsetA, Pattern.MeanOffsetA}],
      [kind |-> "scalar", field |-> "MeanOffsetB",
       pats |-> {Pattern.MLCMeanOffsetB, Pattern.MeanOffsetB}],
      [kind |-> "backlash", field |-> "MLCBacklashA",
       pats |-> {Pattern.MLCBacklashLeavesA_MLCBacklashLeaf, Pattern.sl_MLCBacklashLeavesA_MLCBacklashLeaf}],
      [kind |-> "backlash", field |-> "MLCBacklashB",
       pats |-> {Pattern.MLCBacklashLeavesB_MLCBacklashLeaf, Pattern.sl_MLCBacklashLeavesB_MLCBacklashLeaf}],
      [kind |-> "scalar", field |-> "MLCBacklashMaxA",
       pats |-> {Pattern.MLCBacklashMaxA}],
      [kind |-> "scalar", field |-> "MLCBacklashMaxB",
       pats |-> {Pattern.MLCBacklashMaxB}],
      [kind |-> "scalar", field |-> "MLCBacklashMeanA",
       pats |-> {Pattern.MLCBacklashMeanA}],
      [kind |-> "scalar", field |-> "MLCBacklashMeanB",
       pats |-> {Pattern.MLCBacklashMeanB}],
      [kind |-> "scalar", field |-> "JawX1",
       pats |-> {Pattern.JawX1}],
      [kind |-> "scalar", field |-> "JawX2",
       pats |-> {Pattern.JawX2}],
      [kind |-> "scalar", field |-> "JawY1",
       pats |-> {Pattern.JawY1}],
      [kind |-> "scalar", field |-> "JawY2",
       pats |-> {Pattern.JawY2}],
      [kind |-> "scalar", field |-> "JawParallelismX1",
       pats |-> {Pattern.JawParallelismX1}],
      [kind |-> "scalar", field |-> "JawParallelismX2",
       pats |-> {Pattern.JawParallelismX2}],
      [kind |-> "scalar", field |-> "JawParallelismY1",
       pats |-> {Pattern.JawParallelismY1}],
      [kind |-> "scalar", field |-> "JawParallelismY2",
       pats |-> {Pattern.JawParallelismY2}]
    >>

\* if 1 <= index <= 60: the range the extractor accepts
ExtractLo == 1
ExtractHi == 60

\* the chain with every pattern cut to its first eleven characters, the
\* generic stem it shares with the patterns of other fields
GeoMatches_generic_stem(name, k) ==
    \E q \in GeoChain[k].pats :
       Contains(name, IF Len(q) > 11 THEN SubSeq(q, 1, 11) ELSE q)

GeoMatches(name, k) == \E q \in GeoChain[k].pats : Contains(name, q)

\* the branch the chain takes for a row name, 0 when no pattern matches
GeoBranch(name) ==
    IF \E k \in 1..Len(GeoChain) : GeoMatches(name, k)
    THEN CHOOSE k \in 1..Len(GeoChain) :
            /\ GeoMatches(name, k)
            /\ \A j \in 1..(k - 1) : ~GeoMatches(name, j)
    ELSE 0

\* name.split(lit)[1]: the text between the first and the second occurrence
SplitSecond(name, lit) ==
    LET rest == SubSeq(name, Find(name, lit) + Len(lit), Len(name))
    IN IF Contains(rest, lit) THEN SubSeq(rest, 1, Find(rest, lit) - 1)
       ELSE rest

\* text of s before the first occurrence of c, all of s when there is none
Before(s, c) == IF Contains(s, c) THEN SubSeq(s, 1, Find(s, c) - 1) ELSE s

\* leaf_part.split()[0] if ' ' in leaf_part else leaf_part.split('[')[0]
IndexStr(name, lit) ==
    LET leaf_part == Strip(SplitSecond(name, lit))
    IN IF Contains(leaf_part, <<" ">>) THEN Before(leaf_part, <<" ">>)
       ELSE Before(leaf_part, <<"[">>)

SplitLiteral(kind) == IF kind = "leaf" THEN Str.MLCLeaf ELSE Str.MLCBacklashLeaf

\* an indexed branch: int(index_str), the range test and the setter, inside
\* try/except Exception: pass
GeoIndexed(r, name, k, v) ==
    LET index_str == IndexStr(name, SplitLiteral(GeoChain[k].kind))
    IN IF IntOk(index_str)
          /\ IntValue(index_str) >= ExtractLo
          /\ IntValue(index_str) <= ExtractHi
       THEN [raises |-> "none",
             rec |-> SetKeyed(r, GeoChain[k].field, IntValue(index_str), v).rec]
       ELSE [raises |-> "none", rec |-> r]

GeoChainApply(r, name, v) ==
    LET k == GeoBranch(name)
    IN IF k = 0 THEN [raises |-> "none", rec |-> r]
       ELSE IF GeoChain[k].kind = "scalar" THEN SetNum(r, GeoChain[k].field, v)
       ELSE GeoIndexed(r, name, k, v)

\* one iteration of `for row in reader`
RowStep(kind, r, row) ==
    IF row.short THEN [raises |-> "AttributeError", rec |-> r]
    ELSE LET name  == Strip(row.name)
             value == Strip(row.value)
         IN IF name = <<>> \/ value = <<>> THEN [raises |-> "none", rec |-> r]
            ELSE CASE kind = "e"   -> EChain(r, name, DecimalOrSentinel(value))
                   [] kind = "x"   -> XChain(r, name, DecimalOrSentinel(value))
                   [] kind = "geo" -> GeoChainApply(r, name, DecimalOrSentinel(value))

\* the loop from row i on; an exception ends it and is logged by the caller
RECURSIVE Scan(_, _, _, _)
Scan(kind, r, rows, i) ==
    IF i > Len(rows) THEN [rec |-> r, caught |-> "none", read |-> Len(rows)]
    ELSE LET st == RowStep(kind, r, rows[i])
         IN IF st.raises /= "none"
            THEN [rec |-> st.rec, caught |-> st.raises, read |-> i]
            ELSE Scan(kind, st.rec, rows, i + 1)

\* the rows DictReader yields: without the header line the first row is
\* taken as the header and no row has a 'Name [Unit]' key
DictRows(content) ==
    IF content.header THEN content.rows
    ELSE [i \in 1..(Len(content.rows) - 1) |->
            [name |-> <<>>, value |-> <<>>, short |-> FALSE]]

\* eModelExtraction / xModelExtraction / geoModelExtraction of data_extractor:
\* every exception is caught and logged, the call returns None
Extraction(kind, r, fs) ==
    IF "path" \notin Getters(r.variant)
    THEN [rec |-> r, caught |-> "AttributeError", read |-> 0]
    ELSE LET path == Join(r.path, Str.Results_csv)
         IN IF OpenRaises(fs, path) /= "none"
            THEN [rec |-> r, caught |-> OpenRaises(fs, path), read |-> 0]
            ELSE IF fs[path].kind /= "csv"
            THEN [rec |-> r, caught |-> "UnicodeDecodeError", read |-> 0]
            ELSE Scan(kind, r, DictRows(fs[path]), 1)

(***************************************************************************)
(* DataProcessor (ETL/DataProcessor.py)                                    *)
(***************************************************************************)
\* the if/elif chain of Run, in source order
Branches ==
    << [tok |-> TokenChars["6e"],  type |-> "6e",  variant |-> "EBeamModel",    ex |-> "e"],
       [tok |-> TokenChars["9e"],  type |-> "9e",  variant |-> "EBeamModel",    ex |-> "e"],
       [tok |-> TokenChars["12e"], type |-> "12e", variant |-> "EBeamModel",    ex |-> "e"],
       [tok |-> TokenChars["16e"], type |-> "16e", variant |-> "EBeamModel",    ex |-> "e"],
       [tok |-> TokenChars["10x"], type |-> "10x", variant |-> "XBeamModel",    ex |-> "x"],
       [tok |-> TokenChars["15x"], type |-> "15x", variant |-> "XBeamModel",    ex |-> "x"],
       [tok |-> TokenChars["6x"],  type |-> "6x",  variant |-> "Geo6xfffModel", ex |-> "geo"] >>

\* the branch Run takes: the first whose token is in data_path, 0 for the else
RunBranch(path) ==
    IF \E k \in 1..Len(Branches) : Contains(path, Branches[k].tok)
    THEN CHOOSE k \in 1..Len(Branches) :
            /\ Contains(path, Branches[k].tok)
            /\ \A j \in 1..(k - 1) : ~Contains(path, Branches[j].tok)
    ELSE 0

\* the constructor call of the branch
Construct(variant) ==
    CASE variant = "EBeamModel"    -> EBeamModel
      [] variant = "XBeamModel"    -> XBeamModel
      [] variant = "Geo6xfffModel" -> Geo6xfffModel
      [] variant = "ImageModel"    -> ImageModel

\* model._getDateFromPathName(path), by class
ModelDate(variant, path) ==
    IF variant = "XBeamModel" THEN XBeam_getDateFromPathName(path)
    ELSE getDateFromPathName(path)

\* set_path, set_type, set_date, set_machine_id in this order; the first call
\* that raises ends the sequence and keeps what was assigned before it
Populate(r, b, path) ==
    IF "path" \notin Setters(r.variant)
    THEN [raises |-> "AttributeError", rec |-> r]
    ELSE LET r1 == [r EXCEPT !.path = path, !.type = b.type]
             d  == ModelDate(r.variant, path)
         IN IF d.raises /= "none" THEN [raises |-> d.raises, rec |-> r1]
            ELSE LET r2 == [r1 EXCEPT !.date = d.value]
                 IN IF "machine_id" \notin Setters(r.variant)
                    THEN [raises |-> "AttributeError", rec |-> r2]
                    ELSE [raises |-> "none",
                          rec |-> [r2 EXCEPT !.machine_id =
                                                extract_machine_id(path)]]

(***************************************************************************)
(* Inputs: folder names, exports and file systems                          *)
(***************************************************************************)

\* names as they stand in the 'Name [Unit]' column
RowName ==
    [ BeamOutputChange |->
          <<"B","e","a","m","O","u","t","p","u","t","C","h","a","n","g","e",
          " ","[","%","]">>,
      BeamUniformityChange |->
          <<"B","e","a","m","U","n","i","f","o","r","m","i","t","y","C","h",
          "a","n","g","e"," ","[","%","]">>,
      BeamCenterShift |->
          <<"B","e","a","m","C","e","n","t","e","r","S","h","i","f","t"," ",
          "[","m","m","]">>,
      MLCLeafA11 |->
          <<"C","o","l","l","i","m","a","t","i","o","n","G","r","o","u","p",
          "/","M","L","C","G","r","o","u","p","/","M","L","C","L","e","a",
          "v","e","s","A","/","M","L","C","L","e","a","f","1","1"," ","[",
          "m","m","]">>,
      MLCLeafA5 |->
          <<"M","L","C","L","e","a","v","e","s","A","/","M","L","C","L","e",
          "a","f","5"," ","[","m","m","]">>,
      MLCLeafA75 |->
          <<"M","L","C","L","e","a","v","e","s","A","/","M","L","C","L","e",
          "a","f","7","5"," ","[","m","m","]">>,
      MLCBacklashB60 |->
          <<"M","L","C","B","a","c","k","l","a","s","h","L","e","a","v","e",
          "s","B","/","M","L","C","B","a","c","k","l","a","s","h","L","e",
          "a","f","6","0"," ","[","m","m","]">>,
      MLCMaxOffsetA |->
          <<"C","o","l","l","i","m","a","t","i","o","n","G","r","o","u","p",
          "/","M","L","C","G","r","o","u","p","/","M","L","C","M","a","x",
          "O","f","f","s","e","t","A"," ","[","m","m","]">>,
      Comment |->
          <<"C","o","m","m","e","n","t">> ]
\* values as they stand in the ' Value' column
RowValue ==
    [ d0_98 |->
          <<"0",".","9","8">>,
      d0_12 |->
          <<"0",".","1","2">>,
      d1_5 |->
          <<"1",".","5">>,
      m0_3 |->
          <<"-","0",".","3">>,
      NA |->
          <<"N","/","A">>,
      blank |->
          <<" ">>,
      d0 |->
          <<"0">>,
      d360 |->
          <<"3","6","0">> ]

\* 'NDS-WKS-SN6543-2025-09-19-07-41-49-0004-'
Stem == Str.host \o Str.serial \o Str.dash \o Str.stamp \o Str.seqno

\* '...-BeamCheckTemplate<token>'
BeamFolder(t) == Stem \o Str.BeamCheckTemplate \o TokenChars[t]

GeometryFolder == Stem \o Str.GeometryCheckTemplate \o TokenChars["6x"] \o Str.MVkVEnhancedCouch
FFFFolder == Stem \o Str.BeamCheckTemplate \o TokenChars["6x"] \o Str.FFF
EnhancedMLCFolder == Stem \o Str.EnhancedMLCCheckTemplate \o TokenChars["6x"]
NoTokenFolder == Stem \o Str.BeamCheckTemplate
NoDateFolder == Str.host \o Str.serial \o Str.dash \o Str.BeamCheckTemplate \o TokenChars["6e"]
NoSNFolder == Str.host \o Str.stamp \o Str.seqno \o Str.BeamCheckTemplate \o TokenChars["6e"]

Folders ==
    {BeamFolder(t) : t \in BeamTypes}
    \cup {GeometryFolder, FFFFolder, EnhancedMLCFolder, NoTokenFolder,
          NoDateFolder, NoSNFolder}

Row(n, v) == [name |-> n, value |-> v, short |-> FALSE]
ShortRow(n) == [name |-> n, value |-> <<>>, short |-> TRUE]
Csv(rows) == [kind |-> "csv", header |-> TRUE, rows |-> rows]

\* scenario A: BeamOutputChange = 0.98, BeamUniformityChange = 0.12
ExportA == Csv(<<Row(RowName.BeamOutputChange, RowValue.d0_98),
                 Row(RowName.BeamUniformityChange, RowValue.d0_12)>>)
\* a non-numeric value followed by a well-formed row
ExportNA == Csv(<<Row(RowName.BeamOutputChange, RowValue.NA),
                  Row(RowName.BeamUniformityChange, RowValue.d0_12)>>)
\* a zero-byte file
ExportEmpty == [kind |-> "csv", header |-> FALSE, rows |-> <<>>]
\* bytes that are not UTF-8 text
ExportBinary == [kind |-> "binary"]

CheckXml == [kind |-> "xml", IsBaseline |-> "false"]

NoFiles == [q \in {} |-> ExportEmpty]

\* the files of one measurement folder
FolderFiles(f, hasCsv, csv, hasCheck) ==
    (IF hasCsv THEN (Join(f, Str.Results_csv) :> csv) ELSE NoFiles)
    @@ (IF hasCheck THEN (Join(f, Str.Check_xml) :> CheckXml) ELSE NoFiles)

PipelineExports == {ExportA, ExportNA, ExportEmpty, ExportBinary}

\* ingest_2.5x_beams.find_2_5x_folders: the folders the batch script processes
find_2_5x_folders(fs, f) ==
    /\ Contains(f, Str.BeamCheckTemplate2_5x)
    /\ exists(fs, Join(f, Str.Results_csv))

\* iDriveFolderHandler._is_folder_ready
is_folder_ready(fs, f) ==
    /\ exists(fs, Join(f, Str.Results_csv))
    /\ ~IsEmptyFile(fs, Join(f, Str.Results_csv))

\* AbstractBeamModel._getIsBaselineFromPathName: FileNotFoundError when
\* Check.xml is not next to the export, else the IsBaseline text
getIsBaselineFromPathName(fs, pathName) ==
    LET check_xml_path == Join(dirname(pathName), Str.Check_xml)
    IN IF ~exists(fs, check_xml_path)
       THEN [raises |-> "FileNotFoundError", value |-> FALSE]
       ELSE [raises |-> "none", value |-> fs[check_xml_path].IsBaseline = "true"]

(***************************************************************************)
(* xml_data_extractor                                                      *)
(***************************************************************************)
\* an element: its local tag name and its text (nil: the element is empty)
El(tag, text, nil) == [tag |-> tag, text |-> text, nil |-> nil]

\* _parse_xml_value(element): Decimal(element.text.strip()); the default
\* Decimal(-1) when there is no text or the text does not parse
parse_xml_value(el) ==
    IF el.nil THEN DecimalMinusOne ELSE DecimalOrSentinel(Strip(el.text))

\* the elif chain on the tag of a child of a BeamProfileCheck element (part
\* "profile") or of the CouchReference element (part "couch")
XmlStep(part, kind, r, el) ==
    LET v == parse_xml_value(el)
        field ==
          CASE part = "profile" /\ el.tag = "RelativeOutput" -> "relative_output"
            [] part = "profile" /\ el.tag = "RelativeUniformity" ->
                  "relative_uniformity"
            [] part = "profile" /\ el.tag = "BeamCenterShift" /\ kind /= "e" ->
                  "center_shift"
            [] part = "couch" /\ el.tag \in {"CouchLat", "CouchLng", "CouchVrt"} ->
                  el.tag
            [] part = "couch" /\ el.tag = "CouchRtn" ->
                  IF v < 360 * 100 /\ v > -360 * 100 THEN "CouchRtnFine"
                  ELSE "CouchRtnLarge"
            [] OTHER -> "none"
    IN IF field = "none" THEN [raises |-> "none", rec |-> r]
       ELSE SetNum(r, field, v)

\* for child in check_elem, then (geometry) for child in couch_ref
RECURSIVE XmlChildren(_, _, _, _, _)
XmlChildren(kind, r, profile, couch, i) ==
    IF i > Len(profile) + Len(couch)
    THEN [rec |-> r, caught |-> "none", read |-> i - 1]
    ELSE LET st == IF i <= Len(profile)
                   THEN XmlStep("profile", kind, r, profile[i])
                   ELSE XmlStep("couch", kind, r, couch[i - Len(profile)])
         IN IF st.raises /= "none"
            THEN [rec |-> st.rec, caught |-> st.raises, read |-> i - 1]
            ELSE XmlChildren(kind, st.rec, profile, couch, i + 1)

\* the children of the Linac control point that are looked up with cp.find
CpFields ==
    << [tag |-> "GantryRtn", field |-> "GantryAbsolute"],
       [tag |-> "CollRtn",   field |-> "CollimationRotationOffset"],
       [tag |-> "X1", field |-> "JawX1"], [tag |-> "X2", field |-> "JawX2"],
       [tag |-> "Y1", field |-> "JawY1"], [tag |-> "Y2", field |-> "JawY2"] >>

\* el = cp.find(tag); if el is not None: geoModel.set_<field>(parse(el))
RECURSIVE CpScalars(_, _, _)
CpScalars(r, cp, k) ==
    IF k > Len(CpFields) THEN r
    ELSE CpScalars(LET hits == {i \in 1..Len(cp) : cp[i].tag = CpFields[k].tag}
                       first == CHOOSE i \in hits : \A j \in hits : i <= j
                   IN IF hits = {} THEN r
                      ELSE SetNum(r, CpFields[k].field,
                                  parse_xml_value(cp[first])).rec,
                   cp, k + 1)

\* for idx, val_str in enumerate(leaf_values[:60], start=1):
\*     try: geoModel.set_MLCLeafA(idx, Decimal(val_str)) except: pass
\*     (each index is written at most once, so the loop is one update)
MlcLeaves(r, coll, leaf_values) ==
    LET written == {idx \in 1..Len(leaf_values) :
                       idx <= ExtractHi /\ DecimalOk(leaf_values[idx])}
    IN IF coll \in DOMAIN r.keyed
       THEN [r EXCEPT !.keyed[coll] =
                [idx \in (DOMAIN r.keyed[coll]) \cup written |->
                    IF idx \in written
                    THEN DecimalOrSentinel(leaf_values[idx])
                    ELSE r.keyed[coll][idx]]]
       ELSE r

\* [f for f in os.listdir(folder_path)
\*    if f.startswith('SetBeam') and f.endswith('.xml')], as full paths
SetBeamFiles(fs, folder_path) ==
    {q \in DOMAIN fs :
        /\ dirname(q) = folder_path
        /\ LET f == SubSeq(q, Len(folder_path) + 2, Len(q))
           IN /\ Len(f) >= Len(Str.SetBeam) + Len(Str.dot_xml)
              /\ SubSeq(f, 1, Len(Str.SetBeam)) = Str.SetBeam
              /\ SubSeq(f, Len(f) - Len(Str.dot_xml) + 1, Len(f)) = Str.dot_xml}

\* the SetBeam step with the record put back to its constructed state when
\* the SetBeam document does not parse
SetBeamExtraction_rolls_back(c, fs, folder_path) ==
    IF c.caught /= "none" \/ SetBeamFiles(fs, folder_path) = {} THEN c
    ELSE LET doc == fs[CHOOSE q \in SetBeamFiles(fs, folder_path) : TRUE]
         IN IF ~doc.wellformed
            THEN [c EXCEPT !.caught = "ParseError",
                           !.rec = [Construct(c.rec.variant)
                                       EXCEPT !.path = c.rec.path]]
            ELSE IF ~doc.linac THEN c
            ELSE [c EXCEPT !.rec =
                     MlcLeaves(MlcLeaves(CpScalars(c.rec, doc.cp, 1),
                                         "MLCLeavesA", doc.A),
                               "MLCLeavesB", doc.B)]

\* geoModelExtraction after Results.xml (c: its outcome): the inner try on
\* the first SetBeam file, the first Cp whose WorkObjectID is 'Linac'; A and
\* B hold the whitespace-separated values of Mlc/A and Mlc/B
SetBeamExtraction(c, fs, folder_path) ==
    IF c.caught /= "none" \/ SetBeamFiles(fs, folder_path) = {} THEN c
    ELSE LET doc == fs[CHOOSE q \in SetBeamFiles(fs, folder_path) : TRUE]
         IN IF ~doc.wellformed THEN [c EXCEPT !.caught = "ParseError"]
            ELSE IF ~doc.linac THEN c
            ELSE [c EXCEPT !.rec =
                     MlcLeaves(MlcLeaves(CpScalars(c.rec, doc.cp, 1),
                                         "MLCLeavesA", doc.A),
                               "MLCLeavesB", doc.B)]

\* eModelExtraction / xModelExtraction / geoModelExtraction of
\* xml_data_extractor; read counts the Results.xml children handled
XmlExtraction(kind, r, fs) ==
    IF "path" \notin Getters(r.variant)
    THEN [rec |-> r, caught |-> "AttributeError", read |-> 0]
    ELSE IF kind = "geo" /\ \A q \in DOMAIN fs : dirname(q) /= r.path
    THEN [rec |-> r, caught |-> "FileNotFoundError", read |-> 0]
    ELSE IF ~exists(fs, Join(r.path, Str.Results_xml))
    THEN [rec |-> r, caught |-> "none", read |-> 0]
    ELSE IF ~fs[Join(r.path, Str.Results_xml)].wellformed
    THEN [rec |-> r, caught |-> "ParseError", read |-> 0]
    ELSE IF kind /= "geo"
    THEN XmlChildren(kind, r, fs[Join(r.path, Str.Results_xml)].profile,
                     <<>>, 1)
    ELSE SetBeamExtraction(
            XmlChildren(kind, r, fs[Join(r.path, Str.Results_xml)].profile,
                        fs[Join(r.path, Str.Results_xml)].couch, 1),
            fs, r.path)

(***************************************************************************)
(* The pipeline for one folder, step by step                               *)
(*   pc: idle -> new -> run -> populate -> extract -> upload               *)
(*          -> returned | raised -> reported                               *)
(***************************************************************************)
NoTrace ==
    [branch |-> 0, printed_unknown |-> FALSE, extract_calls |-> 0,
     rows_read |-> 0, caught |-> "none", check_xml_read |-> FALSE,
     uploads |-> 0, reported |-> "none"]

Callers == {"Test.main", "process_folder", "_process_new_folder"}

Init ==
    /\ folder \in Folders
    /\ \E hasCsv \in BOOLEAN, csv \in PipelineExports, hasCheck \in BOOLEAN :
          /\ (~hasCsv => csv = ExportA)
          /\ files = FolderFiles(folder, hasCsv, csv, hasCheck)
    /\ creds \in BOOLEAN
    /\ caller \in Callers
    /\ caller = "process_folder" => (find_2_5x_folders(files, folder) /\ ~creds)
    /\ pc = "idle"
    /\ data_path = <<>>
    /\ uploader = "None"
    /\ rec = NoRecord
    /\ err = "none"
    /\ trace = NoTrace
    /\ processed_folders = {}
    /\ success_count = 0
    /\ failure_count = 0

\* Test.main: dp = DataProcessor(path); dp.Run()
Test_main ==
    /\ caller = "Test.main" /\ pc = "idle"
    /\ pc' = "new"
    /\ UNCHANGED <<folder, files, creds, caller, data_path, uploader, rec, err,
                   trace, processed_folders, success_count, failure_count>>

\* ingest_2.5x_beams.process_folder, up to the DataProcessor call
process_folder_begin ==
    /\ caller = "process_folder" /\ pc = "idle"
    /\ pc' = "new"
    /\ UNCHANGED <<folder, files, creds, caller, data_path, uploader, rec, err,
                   trace, processed_folders, success_count, failure_count>>

\* iDriveFolderHandler._process_new_folder, up to the DataProcessor call
process_new_folder_begin ==
    /\ caller = "_process_new_folder" /\ pc = "idle"
    /\ IF folder \in processed_folders
       THEN pc' = "reported" /\ UNCHANGED processed_folders
       ELSE IF ~is_folder_ready(files, folder)
       THEN pc' = "reported" /\ UNCHANGED processed_folders
       ELSE pc' = "new" /\ processed_folders' = processed_folders \cup {folder}
    /\ UNCHANGED <<folder, files, creds, caller, data_path, uploader, rec, err,
                   trace, success_count, failure_count>>

\* DataProcessor.__init__: Uploader(supabase_url, supabase_key) passes two
\* positional arguments to Uploader.__init__(self, db_adapter=None)
DataProcessor_init ==
    /\ pc = "new"
    /\ data_path' = Join(folder, Str.Results_csv)
    /\ IF creds THEN pc' = "raised" /\ err' = "TypeError"
       ELSE pc' = "run" /\ err' = err
    /\ uploader' = "None"
    /\ UNCHANGED <<folder, files, creds, caller, rec, trace,
                   processed_folders, success_count, failure_count>>

\* Run: the if/elif chain and the constructor of the branch taken
Run_dispatch ==
    /\ pc = "run"
    /\ LET k == RunBranch(data_path)
       IN IF k = 0
          THEN /\ pc' = "returned"
               /\ rec' = rec
               /\ trace' = [trace EXCEPT !.printed_unknown = TRUE]
          ELSE /\ pc' = "populate"
               /\ rec' = Construct(Branches[k].variant)
               /\ trace' = [trace EXCEPT !.branch = k]
    /\ UNCHANGED <<folder, files, creds, caller, data_path, uploader, err,
                   processed_folders, success_count, failure_count>>

\* Run: set_path, set_type, set_date, set_machine_id
Run_populate ==
    /\ pc = "populate"
    /\ LET st == Populate(rec, Branches[trace.branch], data_path)
       IN /\ rec' = st.rec
          /\ IF st.raises = "none" THEN pc' = "extract" /\ err' = err
             ELSE pc' = "raised" /\ err' = st.raises
    /\ UNCHANGED <<folder, files, creds, caller, data_path, uploader, trace,
                   processed_folders, success_count, failure_count>>

\* Run with the extraction call made a second time on the same record
Run_extract_repeats ==
    /\ pc = "extract"
    /\ LET res == Extraction(Branches[trace.branch].ex, rec, files)
       IN /\ rec' = res.rec
          /\ trace' = [trace EXCEPT !.extract_calls = @ + 1,
                                    !.rows_read = res.read,
                                    !.caught = res.caught]
    /\ pc' = IF trace.extract_calls = 0 THEN "extract" ELSE "upload"
    /\ UNCHANGED <<folder, files, creds, caller, data_path, uploader, err,
                   processed_folders, success_count, failure_count>>

\* Run: self.data_ex.<variant>ModelExtraction(model)
Run_extract ==
    /\ pc = "extract"
    /\ LET res == Extraction(Branches[trace.branch].ex, rec, files)
       IN /\ rec' = res.rec
          /\ trace' = [trace EXCEPT !.extract_calls = @ + 1,
                                    !.rows_read = res.read,
                                    !.caught = res.caught]
    /\ pc' = "upload"
    /\ UNCHANGED <<folder, files, creds, caller, data_path, uploader, err,
                   processed_folders, success_count, failure_count>>

\* Run: if self.uploader: self.uploader.EBeamUploader(model) and its
\* siblings, methods the Uploader class does not define
Run_upload ==
    /\ pc = "upload"
    /\ IF uploader /= "None" THEN pc' = "raised" /\ err' = "AttributeError"
       ELSE pc' = "returned" /\ err' = err
    /\ UNCHANGED <<folder, files, creds, caller, data_path, uploader, rec,
                   trace, processed_folders, success_count, failure_count>>

\* process_folder: return True after Run, False in except Exception; main
\* counts the result
process_folder_end ==
    /\ caller = "process_folder" /\ pc \in {"returned", "raised"}
    /\ pc' = "reported"
    /\ IF pc = "returned"
       THEN /\ trace' = [trace EXCEPT !.reported = "success"]
            /\ success_count' = success_count + 1
            /\ failure_count' = failure_count
       ELSE /\ trace' = [trace EXCEPT !.reported = "failure"]
            /\ success_count' = success_count
            /\ failure_count' = failure_count + 1
    /\ UNCHANGED <<folder, files, creds, caller, data_path, uploader, rec, err,
                   processed_folders>>

\* _process_new_folder: "Successfully processed folder" after Run; except
\* Exception logs the error and discards the folder from processed_folders
process_new_folder_end ==
    /\ caller = "_process_new_folder" /\ pc \in {"returned", "raised"}
    /\ pc' = "reported"
    /\ IF pc = "returned"
       THEN /\ trace' = [trace EXCEPT !.reported = "success"]
            /\ processed_folders' = processed_folders
       ELSE /\ trace' = [trace EXCEPT !.reported = "failure"]
            /\ processed_folders' = processed_folders \ {folder}
    /\ UNCHANGED <<folder, files, creds, caller, data_path, uploader, rec, err,
                   success_count, failure_count>>

Next ==
    \/ Test_main
    \/ process_folder_begin
    \/ process_new_folder_begin
    \/ DataProcessor_init
    \/ Run_dispatch
    \/ Run_populate
    \/ Run_extract
    \/ Run_upload
    \/ process_folder_end
    \/ process_new_folder_end

Spec == Init /\ [][Next]_vars

(***************************************************************************)
(* The extraction routines called directly on a freshly constructed        *)
(* record whose path is the measurement folder                             *)
(***************************************************************************)
MaxRows == 2
MaxRuns == 2

Variants == {"EBeamModel", "XBeamModel", "Geo6xfffModel"}

\* data_extractor.extract: the routine is chosen by the class name
ExtractKind(variant) ==
    CASE variant = "EBeamModel"    -> "e"
      [] variant = "XBeamModel"    -> "x"
      [] variant = "Geo6xfffModel" -> "geo"

FolderOf(variant) ==
    CASE variant = "EBeamModel"    -> BeamFolder("6e")
      [] variant = "XBeamModel"    -> BeamFolder("10x")
      [] variant = "Geo6xfffModel" -> GeometryFolder

\* model = Variant(); model.set_path(folder) where the class has set_path
Fresh(variant) ==
    IF "path" \in Setters(variant)
    THEN [Construct(variant) EXCEPT !.path = FolderOf(variant)]
    ELSE Construct(variant)

BeamRowNames == {RowName.BeamOutputChange, RowName.BeamUniformityChange, RowName.BeamCenterShift}
BeamValues == {RowValue.d1_5, RowValue.m0_3, RowValue.d0, RowValue.NA, RowValue.blank}

GeoRowNames ==
    {RowName.BeamOutputChange, RowName.MLCLeafA11, RowName.MLCLeafA5,
     RowName.MLCLeafA75, RowName.MLCBacklashB60, RowName.MLCMaxOffsetA}
GeoValues == {RowValue.d1_5, RowValue.NA}

RowPool(variant) ==
    CASE variant = "Geo6xfffModel" ->
            {Row(n, v) : n \in GeoRowNames, v \in GeoValues}
            \cup {ShortRow(RowName.MLCLeafA11)}
      [] variant = "XBeamModel" ->
            {Row(RowName.BeamOutputChange, RowValue.d1_5),
             Row(RowName.BeamOutputChange, RowValue.NA),
             ShortRow(RowName.BeamOutputChange)}
      [] OTHER ->
            {Row(n, v) : n \in BeamRowNames, v \in BeamValues}
            \cup {ShortRow(RowName.BeamOutputChange),
                  Row(RowName.Comment, RowValue.NA)}

RowSeqs(variant) ==
    UNION {[1..n -> RowPool(variant)] : n \in 0..MaxRows}

InitExtract ==
    /\ \E v \in Variants :
          /\ rec = Fresh(v)
          /\ folder = FolderOf(v)
          /\ \/ \E rows \in RowSeqs(v) :
                   files = FolderFiles(folder, TRUE, Csv(rows), TRUE)
             \/ \E csv \in {ExportEmpty, ExportBinary}, hasCsv \in BOOLEAN :
                   files = FolderFiles(folder, hasCsv, csv, TRUE)
    /\ creds = FALSE
    /\ caller = "extract"
    /\ pc = "fresh"
    /\ data_path = <<>>
    /\ uploader = "None"
    /\ err = "none"
    /\ trace = NoTrace
    /\ processed_folders = {}
    /\ success_count = 0
    /\ failure_count = 0

\* data_extractor.extract(model) on the record, possibly again
extract ==
    /\ caller = "extract" /\ pc \in {"fresh", "extracted"}
    /\ trace.extract_calls < MaxRuns
    /\ LET res == Extraction(ExtractKind(rec.variant), rec, files)
       IN /\ rec' = res.rec
          /\ trace' = [trace EXCEPT !.extract_calls = @ + 1,
                                    !.rows_read = res.read,
                                    !.caught = res.caught]
    /\ pc' = "extracted"
    /\ UNCHANGED <<folder, files, creds, caller, data_path, uploader, err,
                   processed_folders, success_count, failure_count>>

NextExtract == extract

SpecExtract == InitExtract /\ [][NextExtract]_vars

(***************************************************************************)
(* Extraction from the XML exports, and from a CSV export, called directly *)
(*   pc: fresh -> extracted -> extracted (data_extractor)                  *)
(*       fresh -> xml_extracted -> xml_extracted (xml_data_extractor)      *)
(***************************************************************************)
MaxChildren == 2

\* children of a BeamProfileCheck element
ProfilePool ==
    {El(tag, text, FALSE) :
        tag \in {"RelativeOutput", "RelativeUniformity", "BeamCenterShift"},
        text \in {RowValue.d1_5, RowValue.NA}}
    \cup {El("RelativeOutput", <<>>, TRUE)}

ProfileSeqs == UNION {[1..n -> ProfilePool] : n \in 0..MaxChildren}

\* a SetBeam-*.xml document
SetBeamXml(wellformed, linac, cp, A, B) ==
    [kind |-> "xml", wellformed |-> wellformed, linac |-> linac,
     cp |-> cp, A |-> A, B |-> B]

\* the geometry part of an XML export: the CouchReference children and the
\* SetBeam document
GeoXmlPool ==
    { [couch |-> <<>>, hasSetBeam |-> FALSE,
       setbeam |-> SetBeamXml(FALSE, FALSE, <<>>, <<>>, <<>>)],
      [couch |-> <<El("CouchLat", RowValue.m0_3, FALSE),
                   El("CouchRtn", RowValue.d1_5, FALSE)>>,
       hasSetBeam |-> TRUE,
       setbeam |-> SetBeamXml(TRUE, TRUE,
                      <<El("GantryRtn", RowValue.d1_5, FALSE),
                        El("X1", RowValue.m0_3, FALSE)>>,
                      <<RowValue.d1_5, RowValue.NA, RowValue.m0_3>>,
                      <<RowValue.d0>>)],
      [couch |-> <<El("CouchRtn", RowValue.d360, FALSE)>>,
       hasSetBeam |-> TRUE,
       setbeam |-> SetBeamXml(FALSE, FALSE, <<>>, <<>>, <<>>)],
      [couch |-> <<>>, hasSetBeam |-> TRUE,
       setbeam |-> SetBeamXml(TRUE, FALSE, <<>>, <<>>, <<>>)],
      [couch |-> <<>>, hasSetBeam |-> TRUE,
       setbeam |-> SetBeamXml(TRUE, TRUE, <<>>,
                      [i \in 1..(ExtractHi + 1) |-> RowValue.d1_5], <<>>)] }

\* the Results.xml document
ResultsXml(wellformed, profile, couch) ==
    [kind |-> "xml", wellformed |-> wellformed, profile |-> profile,
     couch |-> couch]

XmlFolderFiles(f, hasResults, results, g) ==
    (IF hasResults THEN (Join(f, Str.Results_xml) :> results) ELSE NoFiles)
    @@ (IF g.hasSetBeam THEN (Join(f, Str.SetBeam_6x_xml) :> g.setbeam)
        ELSE NoFiles)
    @@ (Join(f, Str.Check_xml) :> CheckXml)

CsvPool(variant) ==
    IF variant = "Geo6xfffModel"
    THEN {Csv(<<Row(RowName.MLCLeafA11, RowValue.d1_5),
                Row(RowName.MLCLeafA5, RowValue.d1_5)>>),
          Csv(<<Row(RowName.MLCMaxOffsetA, RowValue.d1_5),
                ShortRow(RowName.MLCLeafA11)>>)}
    ELSE {ExportA, ExportNA,
          Csv(<<Row(RowName.BeamOutputChange, RowValue.d1_5),
                ShortRow(RowName.BeamUniformityChange)>>)}

InitXml ==
    /\ \E v \in Variants :
          /\ rec = Fresh(v)
          /\ folder = FolderOf(v)
          /\ \/ \E profile \in ProfileSeqs, g \in GeoXmlPool :
                   /\ v /= "Geo6xfffModel" => (g.couch = <<>> /\ ~g.hasSetBeam)
                   /\ files = XmlFolderFiles(folder, TRUE,
                                 ResultsXml(TRUE, profile, g.couch), g)
             \/ \E hasResults \in BOOLEAN, g \in GeoXmlPool :
                   /\ v /= "Geo6xfffModel" => (g.couch = <<>> /\ ~g.hasSetBeam)
                   /\ g.couch = <<>>
                   /\ files = XmlFolderFiles(folder, hasResults,
                                 ResultsXml(FALSE, <<>>, <<>>), g)
             \/ \E csv \in CsvPool(v) :
                   files = FolderFiles(folder, TRUE, csv, TRUE)
    /\ creds = FALSE
    /\ caller = "extract"
    /\ pc = "fresh"
    /\ data_path = <<>>
    /\ uploader = "None"
    /\ err = "none"
    /\ trace = NoTrace
    /\ processed_folders = {}
    /\ success_count = 0
    /\ failure_count = 0

\* xml_data_extractor.extract(model), on the same record as many times as
\* the caller likes
xml_extract ==
    /\ caller = "extract" /\ pc \in {"fresh", "xml_extracted"}
    /\ trace.extract_calls < MaxRuns
    /\ LET res == XmlExtraction(ExtractKind(rec.variant), rec, files)
       IN /\ rec' = res.rec
          /\ trace' = [trace EXCEPT !.extract_calls = @ + 1,
                                    !.rows_read = res.read,
                                    !.caught = res.caught]
    /\ pc' = "xml_extracted"
    /\ UNCHANGED <<folder, files, creds, caller, data_path, uploader, err,
                   processed_folders, success_count, failure_count>>

NextXml == extract \/ xml_extract

SpecXml == InitXml /\ [][NextXml]_vars

(***************************************************************************)
(* The path resolvers, called directly on a freshly constructed record     *)
(*   pc: fresh -> dated -> resolved, or raised                             *)
(***************************************************************************)
InitResolve ==
    /\ folder \in Folders
    /\ \E v \in Variants \cup {"ImageModel"} : rec = Construct(v)
    /\ files = NoFiles
    /\ creds = FALSE
    /\ caller = "resolve"
    /\ pc = "fresh"
    /\ data_path = <<>>
    /\ uploader = "None"
    /\ err = "none"
    /\ trace = NoTrace
    /\ processed_folders = {}
    /\ success_count = 0
    /\ failure_count = 0

\* model.set_date(model._getDateFromPathName(path))
resolve_date ==
    /\ caller = "resolve" /\ pc = "fresh"
    /\ LET d == ModelDate(rec.variant, folder)
       IN IF d.raises /= "none"
          THEN pc' = "raised" /\ err' = d.raises /\ rec' = rec
          ELSE pc' = "dated" /\ err' = err
               /\ rec' = [rec EXCEPT !.date = d.value]
    /\ UNCHANGED <<folder, files, creds, caller, data_path, uploader, trace,
                   processed_folders, success_count, failure_count>>

\* the serial: model.set_machine_SN(model._getSNFromPathName(path)) where the
\* class has them, else model.set_machine_id(_extract_machine_id(path))
resolve_serial ==
    /\ caller = "resolve" /\ pc = "dated"
    /\ IF "machine_SN" \in Setters(rec.variant)
       THEN LET s == getSNFromPathName(folder)
            IN IF s.raises /= "none"
               THEN pc' = "raised" /\ err' = s.raises /\ rec' = rec
               ELSE pc' = "resolved" /\ err' = err
                    /\ rec' = [rec EXCEPT !.machine_id = s.value]
       ELSE IF "machine_id" \in Setters(rec.variant)
       THEN /\ pc' = "resolved" /\ err' = err
            /\ rec' = [rec EXCEPT !.machine_id = extract_machine_id(folder)]
       ELSE pc' = "raised" /\ err' = "AttributeError" /\ rec' = rec
    /\ UNCHANGED <<folder, files, creds, caller, data_path, uploader, trace,
                   processed_folders, success_count, failure_count>>

NextResolve == resolve_date \/ resolve_serial

SpecResolve == InitResolve /\ [][NextResolve]_vars

(***************************************************************************)
(* Uploader and SupabaseAdapter, called directly                           *)
(*   uploader: the Uploader object and its adapter                         *)
(*   rec:      the model handed to the last upload call                    *)
(*   trace:    the last call, what it returned and the rows it passed to   *)
(*             client.table(...).insert(...), in call order                *)
(*   err:      the exception the last call let out                         *)
(* A Python value is a record [t, v] of its type name and its content.     *)
(***************************************************************************)
MaxCalls == 2

Py(t, v) == [t |-> t, v |-> v]

\* the serializer with only its Decimal branch: dates pass through
serialize_data_decimal_only(data) ==
    [k \in DOMAIN data |->
        IF data[k].t = "Decimal" THEN Py("float", data[k].v) ELSE data[k]]

\* SupabaseAdapter._serialize_data: Decimal -> float, datetime/date -> ISO
\* string, top-level values only
serialize_data(data) ==
    LET digit(n) == SubSeq(<<"0","1","2","3","4","5","6","7","8","9">>,
                           n + 1, n + 1)
        two(n)   == digit(n \div 10) \o digit(n % 10)
        \* datetime.isoformat(): 'YYYY-MM-DDTHH:MM:SS'
        isoformat(d) ==
           two(d.year \div 100) \o two(d.year % 100) \o <<"-">>
           \o two(d.month) \o <<"-">> \o two(d.day) \o <<"T">>
           \o two(d.hour) \o <<":">> \o two(d.minute) \o <<":">>
           \o two(d.second)
    IN [k \in DOMAIN data |->
          CASE data[k].t = "Decimal" -> Py("float", data[k].v)
            [] data[k].t \in {"datetime", "date"} ->
                  Py("str", isoformat(data[k].v))
            [] OTHER -> data[k]]

\* one client.table(table).insert(rows).execute() and what the database
\* answers: data, an empty answer, or an exception
Inserted(table, rows, outcome) ==
    [table |-> table, rows |-> rows, outcome |-> outcome]

\* SupabaseAdapter.ensure_machine_exists(machine_id, None): the rows handed
\* to insert
ensure_machine_exists(machine_id, mc) ==
    IF mc \in {"exists", "select_raises"} THEN <<>>
    ELSE << Inserted("machines",
               << [id |-> machine_id,
                   name |-> Py("str", <<"M","a","c","h","i","n","e"," ">>
                                        \o machine_id.v),
                   location |-> Py("str", <<"U","n","k","n","o","w","n">>),
                   type |-> Py("str", <<"N","D","S","-","W","K","S">>)] >>,
               IF mc = "created" THEN "data"
               ELSE IF mc = "create_empty" THEN "empty" ELSE "raises") >>

\* SupabaseAdapter.upload_beam_data(table_name, data)
upload_beam_data(adapter, table_name, data, mc, oc) ==
    IF ~adapter.connected \/ adapter.client = "None"
    THEN [ok |-> FALSE, inserts |-> <<>>]
    ELSE [ok |-> oc = "data",
          inserts |->
             (IF "machineId" \in DOMAIN data /\ data["machineId"].v /= <<>>
              THEN ensure_machine_exists(data["machineId"], mc) ELSE <<>>)
             \o << Inserted(table_name, <<serialize_data(data)>>, oc) >>]

\* what the getters of a record return, as Python values
PyGet(r, getter) ==
    IF getter = "date"
    THEN (IF r.date = NoDate THEN Py("NoneType", <<>>)
          ELSE Py("datetime", r.date))
    ELSE (IF r.machine_id = <<>> THEN Py("NoneType", <<>>)
          ELSE Py("str", r.machine_id))

\* Uploader._upload_baseline_metrics: one 'baselines' row per metric; an
\* AttributeError of a getter is caught and gives False
upload_baseline_metrics(r, check_type, adapter, oc) ==
    IF ~({"machine_SN", "type", "date", "relative_uniformity",
          "relative_output"} \subseteq Getters(r.variant))
    THEN [result |-> FALSE, inserts |-> <<>>]
    ELSE LET metrics ==
                 << [m |-> "relUniformity", f |-> "relative_uniformity"],
                    [m |-> "relOutput", f |-> "relative_output"] >>
                 \o (IF "center_shift" \in Getters(r.variant)
                     THEN << [m |-> "centerShift", f |-> "center_shift"] >>
                     ELSE <<>>)
             ok == adapter.connected /\ adapter.client /= "None"
         IN [result |-> ok /\ \A i \in 1..Len(metrics) : oc[i] = "data",
             inserts |->
                IF ~ok THEN <<>>
                ELSE [i \in 1..Len(metrics) |->
                        Inserted("baselines",
                           << serialize_data(
                                 [machine_id |-> PyGet(r, "machine_SN"),
                                  check_type |-> Py("str", check_type),
                                  beam_variant |-> Py("str", r.type),
                                  metric_type |-> Py("str", metrics[i].m),
                                  date |-> PyGet(r, "date"),
                                  value |-> Py("Decimal",
                                               r.num[metrics[i].f])]) >>,
                           oc[i])]]

\* Uploader.eModelUpload / xModelUpload / geoModelUpload: a missing getter
\* is an AttributeError, caught: False.  geoModelUpload goes on after the
\* 'beam' insert to build isocenter_data from the undefined name result_id:
\* NameError, caught: False
ModelUpload(kind, r, adapter, mc, oc) ==
    IF "baseline" \notin Getters(r.variant)
    THEN [result |-> FALSE, inserts |-> <<>>]
    ELSE IF r.baseline = "True"
    THEN upload_baseline_metrics(r, IF kind = "geo" THEN "geometry" ELSE "beam",
                                 adapter, oc)
    ELSE IF ~(({"type", "date", "path", "relative_uniformity",
                "relative_output", "machine_SN"}
               \cup (IF kind = "e" THEN {} ELSE {"center_shift"}))
              \subseteq Getters(r.variant))
    THEN [result |-> FALSE, inserts |-> <<>>]
    ELSE [result |-> kind /= "geo" /\ adapter.connected
                     /\ adapter.client /= "None" /\ oc[1] = "data",
          inserts |->
             upload_beam_data(adapter, "beam",
                [type |-> Py("str", r.type),
                 date |-> PyGet(r, "date"),
                 path |-> Py("str", r.path),
                 relUniformity |-> Py("Decimal", r.num["relative_uniformity"]),
                 relOutput |-> Py("Decimal", r.num["relative_output"]),
                 centerShift |-> IF kind = "e" THEN Py("NoneType", <<>>)
                                 ELSE Py("Decimal", r.num["center_shift"]),
                 machineId |-> PyGet(r, "machine_SN"),
                 note |-> Py("NoneType", <<>>)], mc, oc[1]).inserts]

\* the models handed to the uploader: geometry records as Run's 6x branch
\* leaves them (path, type and date set), with and without serial, baseline
\* flag and an extracted value; a fresh geometry record; records of the
\* other classes
UploadModels ==
    { [Geo6xfffModel EXCEPT
          !.path = GeometryFolder, !.type = "6x",
          !.date = getDateFromPathName(GeometryFolder).value,
          !.machine_id = sn, !.baseline = b,
          !.num["relative_output"] = v] :
         sn \in {<<>>, getSNFromPathName(GeometryFolder).value},
         b \in {"False", "True"}, v \in {DecimalZero, 150} }
    \cup { Geo6xfffModel, XBeamModel, ImageModel,
           [EBeamModel EXCEPT
               !.path = BeamFolder("6e"), !.type = "6e",
               !.date = getDateFromPathName(BeamFolder("6e")).value,
               !.machine_id = extract_machine_id(BeamFolder("6e"))] }

\* Uploader(): SupabaseAdapter() with client None, both flags False
InitUpload ==
    /\ uploader = [connected |-> FALSE,
                   db_adapter |-> [client |-> "None", connected |-> FALSE]]
    /\ rec = NoRecord
    /\ trace = [call |-> "none", result |-> "None", inserts |-> <<>>,
                calls |-> 0]
    /\ err = "none"
    /\ caller = "upload"
    /\ pc = "idle"
    /\ folder = <<>>
    /\ files = NoFiles
    /\ creds = TRUE
    /\ data_path = <<>>
    /\ processed_folders = {}
    /\ success_count = 0
    /\ failure_count = 0

\* Uploader.connect(connection_params) with SupabaseAdapter.connect: p is
\* what happens inside the adapter's try: the import fails, url or key is
\* missing, create_client raises, or all succeeds
Uploader_connect ==
    /\ caller = "upload" /\ trace.calls < MaxCalls
    /\ \E p \in {"ok", "missing", "ImportError", "raises"} :
          /\ p = "ImportError" => uploader.db_adapter.client = "None"
          /\ uploader' =
                [connected |-> p = "ok",
                 db_adapter |->
                    CASE p = "ok" -> [client |-> "Client", connected |-> TRUE]
                      [] p = "raises" ->
                            [uploader.db_adapter EXCEPT !.connected = FALSE]
                      [] OTHER -> uploader.db_adapter]
          /\ trace' = [call |-> "connect",
                       result |-> IF p = "ok" THEN "True" ELSE "False",
                       inserts |-> <<>>, calls |-> trace.calls + 1]
    /\ err' = "none"
    /\ UNCHANGED <<folder, files, creds, caller, pc, data_path, rec,
                   processed_folders, success_count, failure_count>>

\* Uploader.close: the class body defines close twice; the later definition
\* (at the end of the class) is the one bound, and it leaves
\* Uploader.connected alone.  SupabaseAdapter.close drops the client.
Uploader_close ==
    /\ caller = "upload" /\ trace.calls < MaxCalls
    /\ uploader' = [uploader EXCEPT
                       !.db_adapter = [client |-> "None", connected |-> FALSE]]
    /\ trace' = [call |-> "close", result |-> "None", inserts |-> <<>>,
                 calls |-> trace.calls + 1]
    /\ err' = "none"
    /\ UNCHANGED <<folder, files, creds, caller, pc, data_path, rec,
                   processed_folders, success_count, failure_count>>

\* Uploader.upload(model): the routine is chosen by substrings of the
\* lower-cased class name ('ebeam', 'xbeam', 'geo'); no match raises
\* TypeError
Uploader_upload ==
    /\ caller = "upload" /\ trace.calls < MaxCalls
    /\ \E model \in UploadModels,
          mc \in {"exists", "select_raises", "created", "create_empty",
                  "create_raises"},
          oc \in [1..3 -> {"data", "empty", "raises"}] :
          LET kind == CASE model.variant = "EBeamModel"    -> "e"
                        [] model.variant = "XBeamModel"    -> "x"
                        [] model.variant = "Geo6xfffModel" -> "geo"
                        [] OTHER -> "none"
          IN
          /\ rec' = model
          /\ IF ~uploader.connected
             THEN /\ err' = "none"
                  /\ trace' = [call |-> "upload", result |-> "False",
                               inserts |-> <<>>, calls |-> trace.calls + 1]
             ELSE IF kind = "none"
             THEN /\ err' = "TypeError"
                  /\ trace' = [call |-> "upload", result |-> "raised",
                               inserts |-> <<>>, calls |-> trace.calls + 1]
             ELSE /\ err' = "none"
                  /\ trace' =
                        [call |-> "upload",
                         result |->
                            IF ModelUpload(kind, model,
                                           uploader.db_adapter, mc, oc).result
                            THEN "True" ELSE "False",
                         inserts |->
                            ModelUpload(kind, model,
                                        uploader.db_adapter, mc, oc).inserts,
                         calls |-> trace.calls + 1]
    /\ UNCHANGED <<folder, files, creds, caller, pc, data_path, uploader,
                   processed_folders, success_count, failure_count>>

\* SupabaseAdapter.upload_geocheck_data(data): data is a flat dict built by
\* the caller from a geometry record (fresh, or populated from a geometry
\* folder with or without a serial number); the four MLC keys are popped,
\* the rest is serialized and inserted into 'geochecks'
Adapter_upload_geocheck_data ==
    /\ caller = "upload" /\ trace.calls < MaxCalls
    /\ \E model \in
             {m \in UploadModels : /\ m.variant = "Geo6xfffModel"
                                  /\ m.baseline = Geo6xfffModel.baseline
                                  /\ m.num = Geo6xfffModel.num},
          mc \in {"exists", "select_raises", "created", "create_empty",
                  "create_raises"},
          oc \in {"data", "empty", "raises"} :
          LET data == [machine_id |-> PyGet(model, "machine_SN"),
                       date |-> PyGet(model, "date"),
                       path |-> Py("str", model.path),
                       jaw_x1 |-> Py("Decimal", model.num["JawX1"]),
                       mlc_leaves_a |->
                          Py("dict", [i \in DOMAIN model.keyed["MLCLeavesA"] |->
                                         Py("Decimal",
                                            model.keyed["MLCLeavesA"][i])])]
              kept == [k \in DOMAIN data \ {"mlc_leaves_a", "mlc_leaves_b",
                                            "mlc_backlash_a", "mlc_backlash_b"}
                         |-> data[k]]
              ok   == uploader.db_adapter.connected
                      /\ uploader.db_adapter.client /= "None"
          IN /\ rec' = model
             /\ trace' =
                   [call |-> "upload_geocheck_data",
                    result |-> IF ok /\ oc = "data" THEN "id" ELSE "None",
                    inserts |->
                       IF ~ok THEN <<>>
                       ELSE (IF data["machine_id"].v /= <<>>
                             THEN ensure_machine_exists(data["machine_id"], mc)
                             ELSE <<>>)
                            \o << Inserted("geochecks",
                                           <<serialize_data(kept)>>, oc) >>,
                    calls |-> trace.calls + 1]
    /\ err' = "none"
    /\ UNCHANGED <<folder, files, creds, caller, pc, data_path, uploader,
                   processed_folders, success_count, failure_count>>

\* SupabaseAdapter.upload_mlc_leaves / upload_mlc_backlash(geocheck_id,
\* leaves_data, bank): float() of every value, one insert of the whole list
Adapter_upload_mlc ==
    /\ caller = "upload" /\ trace.calls < MaxCalls
    /\ \E model \in
             {m \in UploadModels : /\ m.variant = "Geo6xfffModel"
                                  /\ m.baseline = Geo6xfffModel.baseline
                                  /\ m.num = Geo6xfffModel.num},
          what \in {"leaves", "backlash"}, bank \in {"a", "b"},
          geocheck_id \in {Py("NoneType", <<>>), Py("str", <<"i","d">>)},
          oc \in {"data", "empty", "raises"} :
          LET coll == CASE what = "leaves" /\ bank = "a" -> "MLCLeavesA"
                        [] what = "leaves" /\ bank = "b" -> "MLCLeavesB"
                        [] what = "backlash" /\ bank = "a" -> "MLCBacklashA"
                        [] OTHER -> "MLCBacklashB"
              ok   == /\ uploader.db_adapter.connected
                      /\ uploader.db_adapter.client /= "None"
                      /\ geocheck_id.v /= <<>>
          IN /\ rec' = model
             /\ trace' =
                   [call |-> "upload_mlc_" \o what,
                    result |-> IF ok /\ oc = "data" THEN "True" ELSE "False",
                    inserts |->
                       IF ~ok THEN <<>>
                       ELSE << Inserted("geocheck_mlc_" \o what \o "_" \o bank,
                                  [n \in 1..(LeafHi - LeafLo + 1) |->
                                     LET i == LeafLo + n - 1
                                         v == Py("float", model.keyed[coll][i])
                                     IN IF what = "leaves"
                                        THEN [geocheck_id |-> geocheck_id,
                                              leaf_number |-> Py("int", i),
                                              leaf_value |-> v]
                                        ELSE [geocheck_id |-> geocheck_id,
                                              leaf_number |-> Py("int", i),
                                              backlash_value |-> v]],
                                  oc) >>,
                    calls |-> trace.calls + 1]
    /\ err' = "none"
    /\ UNCHANGED <<folder, files, creds, caller, pc, data_path, uploader,
                   processed_folders, success_count, failure_count>>

\* Uploader.uploadMLCLeaves / uploadMLCBacklash(geoModel): leaves 1..60 of
\* both banks are read (a KeyError for an index the record does not hold is
\* caught and the call returns False), then each row goes through
\* upload_beam_data on its own
Uploader_uploadMLC ==
    /\ caller = "upload" /\ trace.calls < MaxCalls
    /\ \E base \in
             {m \in UploadModels : /\ m.variant = "Geo6xfffModel"
                                  /\ m.baseline = Geo6xfffModel.baseline
                                  /\ m.num = Geo6xfffModel.num},
          full \in BOOLEAN, what \in {"leaves", "backlash"},
          oc \in {"data", "empty", "raises"} :
          LET model == IF full
                       THEN [base EXCEPT !.keyed =
                               [c \in GeoKeyed |-> [i \in 1..60 |->
                                   IF i \in DOMAIN base.keyed[c]
                                   THEN base.keyed[c][i] ELSE 150]]]
                       ELSE base
              colls == IF what = "leaves" THEN <<"MLCLeavesA", "MLCLeavesB">>
                       ELSE <<"MLCBacklashA", "MLCBacklashB">>
              row(n) == LET bank == IF n <= 60 THEN 1 ELSE 2
                            i == IF n <= 60 THEN n ELSE n - 60
                            v == Py("Decimal", model.keyed[colls[bank]][i])
                            b == Py("str", IF bank = 1 THEN <<"A">> ELSE <<"B">>)
                        IN IF what = "leaves"
                           THEN [date |-> PyGet(model, "date"),
                                 machine_sn |-> PyGet(model, "machine_SN"),
                                 leaf_bank |-> b, leaf_index |-> Py("int", i),
                                 leaf_value |-> v]
                           ELSE [date |-> PyGet(model, "date"),
                                 machine_sn |-> PyGet(model, "machine_SN"),
                                 leaf_bank |-> b, leaf_index |-> Py("int", i),
                                 backlash_value |-> v]
              table == IF what = "leaves"
                       THEN "mlc_leaves_data" ELSE "mlc_backlash_data"
              KeyError == \E c \in {colls[1], colls[2]} :
                             ~(1..60 \subseteq DOMAIN model.keyed[c])
              up(n) == upload_beam_data(uploader.db_adapter, table, row(n),
                                        "exists", oc)
          IN /\ rec' = model
             /\ trace' =
                   [call |-> "uploadMLC_" \o what,
                    result |-> IF ~KeyError /\ up(1).ok
                               THEN "True" ELSE "False",
                    inserts |->
                       IF KeyError THEN <<>>
                       ELSE [n \in 1..(IF up(1).inserts = <<>> THEN 0 ELSE 120)
                               |-> up(n).inserts[1]],
                    calls |-> trace.calls + 1]
    /\ err' = "none"
    /\ UNCHANGED <<folder, files, creds, caller, pc, data_path, uploader,
                   processed_folders, success_count, failure_count>>

NextUpload ==
    \/ Uploader_connect
    \/ Uploader_close
    \/ Uploader_upload
    \/ Adapter_upload_geocheck_data
    \/ Adapter_upload_mlc
    \/ Uploader_uploadMLC

SpecUpload == InitUpload /\ [][NextUpload]_vars

(***************************************************************************)
(* The folder monitor (file_monitoring/folder_monitor.py): directories     *)
(* appear below the watched path, exports are written into them, and the   *)
(* observer thread hands the events to the handler one at a time           *)
(*   files             : the exports present                               *)
(*   processed_folders : the handler's set                                 *)
(*   creds             : supabase_url and supabase_key were given          *)
(*   folder            : the path of the last directory event handled      *)
(*   err               : the exception the last Run raised                 *)
(*   trace             : [dirs, queue, events, runs, raised, last]         *)
(***************************************************************************)
MaxEvents == 4

\* the directories that appear below the watched path
MonFolders == {BeamFolder("6e"), GeometryFolder}

\* DataProcessor(folder_path, supabase_url, supabase_key).Run(): the
\* exception the constructor or Run lets out, "none" when Run returns, by
\* credentials and folder; the extraction catches its own exceptions and
\* no uploader is called without credentials
DataProcessor_Run ==
    [c \in BOOLEAN |-> [folder_path \in MonFolders |->
        IF c THEN "TypeError"
        ELSE LET path == Join(folder_path, Str.Results_csv)
                 k    == RunBranch(path)
             IN IF k = 0 THEN "none"
                ELSE Populate(Construct(Branches[k].variant), Branches[k],
                              path).raises]]

\* the handler that keeps the folder marked when Run raises
mark_processed_keeps(pf, folder_path, out) == pf \cup {folder_path}

\* _process_new_folder: processed_folders.add before the Run, discard in
\* the except clause
mark_processed(pf, folder_path, out) ==
    IF out = "none" THEN pf \cup {folder_path} ELSE pf \ {folder_path}

\* the handler without its first guard
process_new_folder_unguarded(pf, fs, folder_path, c) ==
    IF ~is_folder_ready(fs, folder_path)
    THEN [processed |-> pf, ran |-> FALSE, out |-> "none"]
    ELSE LET out == DataProcessor_Run[c][folder_path]
         IN [processed |-> mark_processed(pf, folder_path, out),
             ran |-> TRUE, out |-> out]

\* iDriveFolderHandler._process_new_folder(folder_path), the whole call
process_new_folder(pf, fs, folder_path, c) ==
    IF folder_path \in pf \/ ~is_folder_ready(fs, folder_path)
    THEN [processed |-> pf, ran |-> FALSE, out |-> "none"]
    ELSE LET out == DataProcessor_Run[c][folder_path]
         IN [processed |-> mark_processed(pf, folder_path, out),
             ran |-> TRUE, out |-> out]

\* iDriveFolderHandler(): an empty set; nothing below the watched path yet
InitMonitor ==
    /\ files = NoFiles
    /\ processed_folders = {}
    /\ creds \in BOOLEAN
    /\ folder = <<>>
    /\ err = "none"
    /\ trace = [dirs |-> {}, queue |-> <<>>, events |-> 0,
                runs |-> [f \in MonFolders |-> 0],
                raised |-> [f \in MonFolders |-> 0],
                last |-> [handled |-> 0, was_processed |-> FALSE,
                          ready |-> FALSE, ran |-> FALSE]]
    /\ caller = "monitor"
    /\ pc = "watching"
    /\ data_path = <<>>
    /\ uploader = "None"
    /\ rec = NoRecord
    /\ success_count = 0
    /\ failure_count = 0

\* a directory is created empty below the watched path, or moved there
\* with its export inside: the observer queues a directory event
fs_new_directory ==
    /\ caller = "monitor" /\ trace.events < MaxEvents
    /\ \E f \in MonFolders \ trace.dirs, moved \in BOOLEAN,
          csv \in {ExportA, ExportEmpty} :
          /\ files' = IF moved THEN (Join(f, Str.Results_csv) :> csv) @@ files
                      ELSE files
          /\ trace' = [trace EXCEPT
                          !.dirs = @ \cup {f},
                          !.events = @ + 1,
                          !.queue = Append(@,
                             [kind |-> IF moved THEN "moved" ELSE "created",
                              is_directory |-> TRUE, path |-> f])]
    /\ UNCHANGED <<folder, creds, caller, pc, data_path, uploader, rec, err,
                   processed_folders, success_count, failure_count>>

\* Results.csv is created in a directory, empty or with its rows, or an
\* empty one receives its rows; the creation queues a file event
fs_write_results ==
    /\ caller = "monitor" /\ trace.events < MaxEvents
    /\ \E f \in trace.dirs, csv \in {ExportA, ExportEmpty} :
          LET path == Join(f, Str.Results_csv)
          IN /\ exists(files, path) => (IsEmptyFile(files, path)
                                        /\ csv = ExportA)
             /\ files' = (path :> csv) @@ files
             /\ trace' = [trace EXCEPT
                             !.events = @ + 1,
                             !.queue =
                                IF exists(files, path) THEN @
                                ELSE Append(@, [kind |-> "created",
                                                is_directory |-> FALSE,
                                                path |-> path])]
    /\ UNCHANGED <<folder, creds, caller, pc, data_path, uploader, rec, err,
                   processed_folders, success_count, failure_count>>

\* a directory is removed with its export; no handler for deletions
fs_remove_directory ==
    /\ caller = "monitor" /\ trace.events < MaxEvents
    /\ \E f \in trace.dirs :
          /\ files' = [q \in DOMAIN files \ {Join(f, Str.Results_csv)}
                         |-> files[q]]
          /\ trace' = [trace EXCEPT !.dirs = @ \ {f}, !.events = @ + 1]
    /\ UNCHANGED <<folder, creds, caller, pc, data_path, uploader, rec, err,
                   processed_folders, success_count, failure_count>>

\* the observer thread takes the next event: on_created / on_moved call
\* _process_new_folder for a directory and nothing for a file
dispatch ==
    /\ caller = "monitor" /\ trace.queue /= <<>>
    /\ LET e == Head(trace.queue)
       IN IF ~e.is_directory
          THEN /\ trace' = [trace EXCEPT !.queue = Tail(@)]
               /\ UNCHANGED <<folder, err, processed_folders>>
          ELSE LET r == process_new_folder(processed_folders, files,
                                           e.path, creds)
               IN /\ folder' = e.path
                  /\ processed_folders' = r.processed
                  /\ err' = r.out
                  /\ trace' = [trace EXCEPT
                        !.queue = Tail(@),
                        !.runs[e.path] = IF r.ran THEN @ + 1 ELSE @,
                        !.raised[e.path] =
                           IF r.ran /\ r.out /= "none" THEN @ + 1 ELSE @,
                        !.last = [handled |-> @.handled + 1,
                                  was_processed |->
                                     e.path \in processed_folders,
                                  ready |-> is_folder_ready(files, e.path),
                                  ran |-> r.ran]]
    /\ UNCHANGED <<files, creds, caller, pc, data_path, uploader, rec,
                   success_count, failure_count>>

NextMonitor ==
    \/ fs_new_directory
    \/ fs_write_results
    \/ fs_remove_directory
    \/ dispatch

SpecMonitor == InitMonitor /\ [][NextMonitor]_vars

\* the observer thread runs as long as events are queued
SpecMonitorLive == SpecMonitor /\ WF_vars(dispatch)

(***************************************************************************)
(* image_extractor.process_image called by two folder-processing           *)
(* invocations at once, each on its own ImageModel                         *)
(*   rec   : invocation -> the ImageModel it was handed                    *)
(*   pc    : invocation -> start, corrected, saved, done or raised         *)
(*   files : the corrected DICOM at the path process_image writes          *)
(*   err   : invocation -> the exception process_image let out             *)
(***************************************************************************)
\* the file named by the literal path of save_as and FieldAnalysis
CorrectedDicom == <<"B","a","s","e","l","i","n","e","0","2","0","1","v","s",
                    "R","a","w","0","2","0","7",".","d","c","m">>

\* FieldAnalysis(file).analyze().results_data().protocol_results: the four
\* metrics, a function of the pixels in the file
protocol_results(pixels) ==
    [symmetry_horizontal |-> pixels + 1, symmetry_vertical |-> pixels + 2,
     flatness_horizontal |-> pixels + 3, flatness_vertical |-> pixels + 4]

\* two ImageModel() with the four metrics None; image.get_path() gives a
\* path string, or the pixel array of one of three images, named by its
\* content
InitImage ==
    /\ rec \in [{1, 2} ->
                  {[path |-> p,
                    metrics |-> [symmetry_horizontal |-> "None",
                                 symmetry_vertical |-> "None",
                                 flatness_horizontal |-> "None",
                                 flatness_vertical |-> "None"]] :
                     p \in {[t |-> "str", pixels |-> 0]}
                           \cup {[t |-> "ndarray", pixels |-> a] :
                                    a \in {10, 20, 30}}}]
    /\ pc = [i \in {1, 2} |-> "start"]
    /\ files = NoFiles
    /\ err = [i \in {1, 2} |-> "none"]
    /\ trace = [saves |-> 0]
    /\ caller = "process_image"
    /\ folder = <<>>
    /\ creds = FALSE
    /\ data_path = <<>>
    /\ uploader = "None"
    /\ processed_folders = {}
    /\ success_count = 0
    /\ failure_count = 0

\* process_image up to the corrected array: raw_img_png = image.get_path();
\* the division by the baseline array raises TypeError for a str
process_image_correct ==
    /\ caller = "process_image"
    /\ \E i \in {1, 2} :
          /\ pc[i] = "start"
          /\ IF rec[i].path.t = "str"
             THEN /\ pc' = [pc EXCEPT ![i] = "raised"]
                  /\ err' = [err EXCEPT ![i] = "TypeError"]
             ELSE /\ pc' = [pc EXCEPT ![i] = "corrected"]
                  /\ err' = err
    /\ UNCHANGED <<folder, files, creds, caller, data_path, uploader, rec,
                   trace, processed_folders, success_count, failure_count>>

\* corrected = raw_img_png.astype(np.float32); array_to_dicom(corrected)
\* .save_as(the literal path)
process_image_save ==
    /\ caller = "process_image"
    /\ \E i \in {1, 2} :
          /\ pc[i] = "corrected"
          /\ files' = (CorrectedDicom :> [kind |-> "dicom",
                                          pixels |-> rec[i].path.pixels])
          /\ pc' = [pc EXCEPT ![i] = "saved"]
    /\ trace' = [trace EXCEPT !.saves = @ + 1]
    /\ UNCHANGED <<folder, creds, caller, data_path, uploader, rec, err,
                   processed_folders, success_count, failure_count>>

\* FieldAnalysis(the literal path).analyze(); the four set_ calls
process_image_analyze ==
    /\ caller = "process_image"
    /\ \E i \in {1, 2} :
          /\ pc[i] = "saved"
          /\ rec' = [rec EXCEPT ![i].metrics =
                        protocol_results(files[CorrectedDicom].pixels)]
          /\ pc' = [pc EXCEPT ![i] = "done"]
    /\ UNCHANGED <<folder, files, creds, caller, data_path, uploader, err,
                   trace, processed_folders, success_count, failure_count>>

NextImage ==
    \/ process_image_correct
    \/ process_image_save
    \/ process_image_analyze

SpecImage == InitImage /\ [][NextImage]_vars

(***************************************************************************)
(* Properties                                                              *)
(***************************************************************************)
\* Run was entered and has ended, by return or by exception
RunCalled == trace.branch /= 0 \/ trace.printed_unknown
RunEnded == RunCalled /\ pc \in {"returned", "raised", "reported"}

\* the CSV export of the folder, as the extraction routine should see it
ExportPath == Join(folder, Str.Results_csv)
HasRows == /\ exists(files, ExportPath)
           /\ files[ExportPath].kind = "csv"
           /\ files[ExportPath].header
ExportRows == IF HasRows THEN files[ExportPath].rows ELSE <<>>

\* C1: for every supported token t, Run on '...BeamCheckTemplate<t>' selects
\* the record variant of t (electron for 6e/9e/12e/16e, x-ray for
\* 2.5x/10x/15x, geometry for 6x) and records beam_type = t; on a path with
\* no token it constructs no record and reports the unrecognized beam type
\* (here: by the diagnostic Run prints; C9 is about what the caller sees).
C1_EveryTokenClassified ==
    RunEnded =>
      /\ \A t \in BeamTypes :
            folder = BeamFolder(t) =>
               /\ rec.variant = (IF t \in {"6e", "9e", "12e", "16e"}
                                 THEN "EBeamModel"
                                 ELSE IF t \in {"2.5x", "10x", "15x"}
                                 THEN "XBeamModel" ELSE "Geo6xfffModel")
               /\ rec.type = t
      /\ folder = NoTokenFolder =>
            (rec = NoRecord /\ trace.printed_unknown)

\* C2: when the path contains a token that is a substring of a longer
\* supported token also present in the path, Run classifies the path as the
\* longer token, never as the shorter one.
C2_LongestTokenFirst ==
    RunEnded =>
      \A short \in BeamTypes, long \in BeamTypes :
         ( /\ short /= long
           /\ Contains(TokenChars[long], TokenChars[short])
           /\ Contains(data_path, TokenChars[long]) )
         => (rec /= NoRecord /\ rec.type = long)

\* C3: a path that contains '6x' and the marker 'BeamCheckTemplate6xFFF' gets
\* beam type 6xFFF and the electron/x-ray extraction; it is never given the
\* geometry record or the geometry extraction routine.
C3_FFFNeverGeometry ==
    ( /\ trace.branch /= 0
      /\ Contains(data_path, TokenChars["6x"])
      /\ Contains(data_path, Str.BeamCheckTemplate \o TokenChars["6x"] \o Str.FFF) )
    => /\ rec.variant /= "Geo6xfffModel"
       /\ Branches[trace.branch].ex /= "geo"
       /\ (RunEnded => rec.type = "6xFFF")

\* C4: scenario A: Run on '...-SN6543-2025-09-19-07-41-49-0004-
\* BeamCheckTemplate6e' whose Results.csv has BeamOutputChange = 0.98 and
\* BeamUniformityChange = 0.12 ends with an electron record holding
\* beam_type '6e', machine_serial 'SN6543', acquisition_time
\* 2025-09-19T07:41:49, relative_output 0.98 and relative_uniformity 0.12.
C4_ScenarioA ==
    ( /\ RunEnded
      /\ folder = BeamFolder("6e")
      /\ HasRows /\ files[ExportPath] = ExportA )
    => /\ rec.variant = "EBeamModel"
       /\ rec.type = "6e"
       /\ rec.machine_id = Str.serial
       /\ rec.date = [year |-> 2025, month |-> 9, day |-> 19,
                      hour |-> 7, minute |-> 41, second |-> 49]
       /\ rec.num["relative_output"] = 98
       /\ rec.num["relative_uniformity"] = 12

\* C5: after numeric extraction has run on a record, every numeric field
\* whose name was not found in the export holds the sentinel -1.
C5_UnfoundFieldsAreSentinel ==
    (caller = "extract" /\ pc = "extracted") =>
      LET named(pat) == \E i \in 1..Len(ExportRows) :
                           Contains(ExportRows[i].name, pat)
          found(f) ==
             \/ f = "relative_output" /\ named(Pattern.BeamOutputChange)
             \/ f = "relative_uniformity" /\ named(Pattern.BeamUniformityChange)
             \/ f = "center_shift" /\ named(Pattern.BeamCenterShift)
             \/ /\ rec.variant = "Geo6xfffModel"
                /\ \E k \in 1..Len(GeoChain) :
                      /\ GeoChain[k].field = f
                      /\ \E q \in GeoChain[k].pats : named(q)
      IN /\ \A f \in DOMAIN rec.num :
               ~found(f) => rec.num[f] = DecimalMinusOne
         /\ \A c \in DOMAIN rec.keyed :
               (~named(Str.MLCLeaf) /\ ~named(Str.MLCBacklashLeaf))
               => \A i \in DOMAIN rec.keyed[c] :
                     rec.keyed[c][i] = DecimalMinusOne

\* C6: in CSV extraction, every row whose name matches a field pattern and
\* whose value is non-numeric sets that field to the sentinel -1, no error
\* leaves the call, and every later row is still processed.
C6_NonNumericYieldsSentinel ==
    ( /\ caller = "extract" /\ pc = "extracted"
      /\ rec.variant \in {"EBeamModel", "XBeamModel"}
      /\ HasRows
      /\ \A i \in 1..Len(ExportRows) : ~ExportRows[i].short
      /\ \E i \in 1..Len(ExportRows) :
            /\ ~DecimalOk(Strip(ExportRows[i].value))
            /\ Contains(ExportRows[i].name, Pattern.BeamOutputChange) )
    => /\ err = "none"
       /\ trace.rows_read = Len(ExportRows)
       /\ \A i \in 1..Len(ExportRows) :
             ( /\ ~DecimalOk(Strip(ExportRows[i].value))
               /\ Contains(ExportRows[i].name, Pattern.BeamOutputChange)
               /\ \A j \in (i + 1)..Len(ExportRows) :
                     ~Contains(ExportRows[j].name, Pattern.BeamOutputChange) )
             => \E f \in {"relative_output", "relative_out"} :
                   f \in DOMAIN rec.num /\ rec.num[f] = DecimalMinusOne

\* C7: in geometry CSV extraction, an indexed row whose index lies outside
\* the record's valid leaf range (11..50) is ignored: the leaf and backlash
\* collections (keys and values) and all scalar fields are unchanged.
C7_OutOfRangeLeafIgnored ==
    ( /\ caller = "extract" /\ pc = "extracted"
      /\ rec.variant = "Geo6xfffModel"
      /\ HasRows
      /\ \A i \in 1..Len(ExportRows) :
            LET name == Strip(ExportRows[i].name)
                k    == GeoBranch(name)
            IN /\ ~ExportRows[i].short
               /\ k /= 0
               /\ GeoChain[k].kind \in {"leaf", "backlash"}
               /\ IntOk(IndexStr(name, SplitLiteral(GeoChain[k].kind)))
               /\ IntValue(IndexStr(name, SplitLiteral(GeoChain[k].kind)))
                     \notin ModelLeafRange )
    => /\ rec.keyed = Geo6xfffModel.keyed
       /\ rec.num = Geo6xfffModel.num
       /\ trace.caught = "none"

\* C8: scenario C: when the folder has no Check.xml, the pipeline for a
\* classified folder aborts (it does not return normally) and no numeric
\* extraction step runs before that.
C8_MissingMarkerAbortsBeforeExtraction ==
    (trace.branch /= 0 /\ ~exists(files, Join(folder, Str.Check_xml)))
    => /\ trace.extract_calls = 0
       /\ trace.rows_read = 0
       /\ pc /= "returned"

\* C9: when no token matches, Run reports UnrecognizedBeamType to its
\* caller, and the batch-level caller never reports or counts the folder
\* as successfully processed.
C9_UnrecognizedIsSurfaced ==
    (trace.printed_unknown /\ pc = "reported")
    => /\ err /= "none"
       /\ trace.reported /= "success"
       /\ success_count = 0
       /\ folder \notin processed_folders

\* C10: when the export is absent or malformed, the extraction call fails
\* with an error that is visible to its caller; it never returns as if it
\* had succeeded.
C10_ExtractionFailureVisible ==
    ( /\ caller = "extract" /\ pc = "extracted"
      /\ \/ ~exists(files, ExportPath)
         \/ files[ExportPath].kind /= "csv" )
    => err /= "none"

\* C11: a path that contains the exclusion marker (the enhanced-MLC-check
\* template) makes Run a no-op: no record is constructed, no extraction runs,
\* nothing is handed to persistence and no error is raised, although the
\* path also contains the token '6x'.
C11_ExclusionMarkerIsNoOp ==
    ( /\ trace.branch /= 0 \/ trace.printed_unknown
      /\ Contains(data_path, Str.EnhancedMLCCheckTemplate)
      /\ Contains(data_path, TokenChars["6x"]) )
    => /\ rec = NoRecord
       /\ trace.extract_calls = 0
       /\ trace.uploads = 0
       /\ err = "none"
       /\ pc /= "raised"

\* C13: every record that reaches numeric extraction or the persistence step
\* carries a machine serial of the form 'SN' followed by digits that stand
\* in the path; a path without SN<digits> never yields a record with a
\* placeholder serial.
C13_SerialIsCanonical ==
    ( /\ caller /= "extract"
      /\ pc \in {"extract", "upload"} \/ trace.extract_calls > 0 )
    => /\ Len(rec.machine_id) > 2
       /\ SubSeq(rec.machine_id, 1, 2) = Str.SN
       /\ AllDigits(SubSeq(rec.machine_id, 3, Len(rec.machine_id)))
       /\ Contains(data_path, rec.machine_id)

\* C12: when the folder path holds no YYYY-MM-DD-HH-MM-SS pattern, resolving
\* the acquisition time fails for every record variant: the call raises and
\* no timestamp, not even a null one, is assigned to the record.
C12_MissingDateFails ==
    (caller = "resolve" /\ pc /= "fresh" /\ ~HasDate(folder))
    => /\ pc = "raised"
       /\ err /= "none"
       /\ rec.date = NoDate


C17_ExtractionIdempotent ==
    [][ (caller = "extract" /\ pc \in {"extracted", "xml_extracted"})
        => /\ rec' = rec
           /\ trace'.caught = trace.caught
           /\ trace'.rows_read = trace.rows_read ]_vars

C17_Witness ==
    /\ caller = "extract" /\ pc = "xml_extracted"
    /\ trace.extract_calls = 2
    /\ rec.variant = "Geo6xfffModel"
    /\ rec.num["relative_output"] = 150
    /\ rec.num["CouchLat"] = -30
    /\ rec.num["GantryAbsolute"] = 150
    /\ rec.keyed["MLCLeavesA"][3] = -30


\* C18: the leaf index set of a geometry record is fixed at construction:
\* after any extraction, from a CSV or an XML export, each of its keyed leaf
\* collections holds exactly the indices it was constructed with.
C18_LeafIndexSetFixed ==
    ( /\ caller = "extract" /\ pc \in {"extracted", "xml_extracted"}
      /\ rec.variant = "Geo6xfffModel" )
    => \A c \in DOMAIN rec.keyed : DOMAIN rec.keyed[c] = ModelLeafRange


\* C19: when extraction fails part-way through an export, the fields set
\* before the failure keep their extracted values and every other field
\* keeps the value it had before the call.  CSV: a row without a value
\* column raises after the k rows before it; the electron fields hold what
\* the last of those k rows with their pattern gave, 0.0 when none did.
\* XML: a SetBeam document that does not parse fails after Results.xml was
\* applied; the profile and couch fields hold the Results.xml values and the
\* SetBeam fields and leaf collections are as constructed.
C19_PartialExtractionRetained ==
    /\ ( /\ caller = "extract" /\ pc = "extracted"
         /\ rec.variant = "EBeamModel"
         /\ HasRows
         /\ \E k \in 1..Len(ExportRows) : ExportRows[k].short )
       => LET k == CHOOSE i \in 1..Len(ExportRows) :
                      /\ ExportRows[i].short
                      /\ \A j \in 1..(i - 1) : ~ExportRows[j].short
          IN /\ trace.caught = "AttributeError"
             /\ \A f \in {"relative_output", "relative_uniformity"} :
                   LET hits == {i \in 1..(k - 1) :
                                  /\ Strip(ExportRows[i].value) /= <<>>
                                  /\ IF f = "relative_output"
                                     THEN Contains(ExportRows[i].name,
                                                   Pattern.BeamOutputChange)
                                     ELSE /\ ~Contains(ExportRows[i].name,
                                                   Pattern.BeamOutputChange)
                                          /\ Contains(ExportRows[i].name,
                                                   Pattern.BeamUniformityChange)}
                       last == CHOOSE i \in hits : \A j \in hits : j <= i
                       val == Strip(ExportRows[last].value)
                   IN rec.num[f] =
                         IF hits = {} THEN DecimalZero
                         ELSE CASE val = RowValue.d1_5  -> 150
                                [] val = RowValue.m0_3  -> -30
                                [] val = RowValue.d0_98 -> 98
                                [] val = RowValue.d0_12 -> 12
                                [] val = RowValue.d0    -> 0
                                [] OTHER -> DecimalMinusOne
    /\ ( /\ caller = "extract" /\ pc = "xml_extracted"
         /\ rec.variant = "Geo6xfffModel"
         /\ exists(files, Join(folder, Str.Results_xml))
         /\ files[Join(folder, Str.Results_xml)].wellformed
         /\ exists(files, Join(folder, Str.SetBeam_6x_xml))
         /\ ~files[Join(folder, Str.SetBeam_6x_xml)].wellformed )
       => LET doc == files[Join(folder, Str.Results_xml)]
          IN /\ trace.caught = "ParseError"
             /\ \A tag \in {"RelativeOutput", "RelativeUniformity",
                            "BeamCenterShift"} :
                   LET f == CASE tag = "RelativeOutput" -> "relative_output"
                              [] tag = "RelativeUniformity" -> "relative_uniformity"
                              [] tag = "BeamCenterShift" -> "center_shift"
                       hits == {i \in 1..Len(doc.profile) :
                                   doc.profile[i].tag = tag}
                       last == CHOOSE i \in hits : \A j \in hits : j <= i
                   IN rec.num[f] =
                         IF hits = {} THEN DecimalZero
                         ELSE IF ~doc.profile[last].nil
                                 /\ doc.profile[last].text = RowValue.d1_5
                              THEN 150
                              ELSE DecimalMinusOne
             /\ (doc.couch = <<El("CouchRtn", RowValue.d360, FALSE)>>)
                   => /\ rec.num["CouchRtnLarge"] = 36000
                      /\ rec.num["CouchRtnFine"] = DecimalZero
             /\ \A f \in {"GantryAbsolute", "CollimationRotationOffset",
                          "JawX1", "JawX2", "JawY1", "JawY2"} :
                   rec.num[f] = DecimalZero
             /\ \A c \in DOMAIN rec.keyed :
                   rec.keyed[c] = [i \in ModelLeafRange |-> DecimalZero]

C19_Witness ==
    /\ caller = "extract" /\ pc = "xml_extracted"
    /\ rec.variant = "Geo6xfffModel"
    /\ trace.caught = "ParseError"
    /\ trace.rows_read = 3
    /\ rec.num["relative_output"] = 150
    /\ rec.num["center_shift"] = DecimalMinusOne
    /\ rec.num["CouchRtnLarge"] = 36000


\* C20: once Run has dispatched a path to a branch and the branch's setters
\* have acted, the beam type stored on the record is the token that selected
\* the branch, a token present in the path, and it stays so in every later
\* step of the run.
C20_TypeIsMatchedToken ==
    ( /\ caller \in Callers
      /\ trace.branch /= 0
      /\ pc \in {"extract", "upload", "returned", "raised", "reported"} )
    => /\ rec.type \in BeamTypes
       /\ TokenChars[rec.type] = Branches[trace.branch].tok
       /\ Contains(data_path, TokenChars[rec.type])


\* C23: for every recognized beam type, Run constructs the record, sets
\* path, type, date and machine serial on it and then calls the variant's
\* extraction routine; no recognized type ends with an AttributeError raised
\* because the record variant or the uploader lacks an operation Run calls
C23_RecognizedTypeReachesExtraction ==
    ( /\ caller \in Callers
      /\ trace.branch /= 0
      /\ pc \in {"returned", "raised", "reported"} )
    => /\ err /= "AttributeError"
       /\ err = "none" => /\ trace.extract_calls = 1
                          /\ rec.path = data_path
                          /\ rec.type = Branches[trace.branch].type


\* C24: in geometry CSV extraction each export row updates at most one
\* record field: the first pattern of the chain contained in the row name
\* decides the field and no pattern of a different field's branch is
\* contained in that name; a field differs from its constructed value only
\* if some row of its own vocabulary was read; the indexed leaf patterns are
\* tested before the offset patterns (MaxOffsetA/B, MeanOffsetA/B) and the
\* indexed backlash patterns before the backlash summary patterns
\* (MLCBacklashMax/Mean A/B).
C24_RowUpdatesOnlyItsField ==
    ( /\ caller = "extract" /\ pc = "extracted"
      /\ rec.variant = "Geo6xfffModel"
      /\ HasRows
      /\ \A i \in 1..Len(ExportRows) : ~ExportRows[i].short )
    => /\ trace.caught = "none"
       /\ \A i \in 1..Len(ExportRows) : \A k \in 1..Len(GeoChain) :
             GeoMatches(Strip(ExportRows[i].name), k)
             => GeoBranch(Strip(ExportRows[i].name)) = k
       /\ \A k \in 1..Len(GeoChain) :
             ( IF GeoChain[k].kind = "scalar"
               THEN rec.num[GeoChain[k].field]
                       /= Geo6xfffModel.num[GeoChain[k].field]
               ELSE rec.keyed[GeoChain[k].field]
                       /= Geo6xfffModel.keyed[GeoChain[k].field] )
             => \E i \in 1..Len(ExportRows) :
                   /\ GeoMatches(Strip(ExportRows[i].name), k)
                   /\ Strip(ExportRows[i].value) /= <<>>
       /\ \A k, g \in 1..Len(GeoChain) :
             ( \/ /\ GeoChain[k].kind = "leaf"
                  /\ GeoChain[g].field \in {"MaxOffsetA", "MaxOffsetB",
                                            "MeanOffsetA", "MeanOffsetB"}
               \/ /\ GeoChain[k].kind = "backlash"
                  /\ GeoChain[g].field \in
                        {"MLCBacklashMaxA", "MLCBacklashMaxB",
                         "MLCBacklashMeanA", "MLCBacklashMeanB"} )
             => k < g

C24_Witness ==
    /\ caller = "extract" /\ pc = "extracted"
    /\ rec.variant = "Geo6xfffModel"
    /\ HasRows
    /\ ExportRows = <<Row(RowName.MLCLeafA11, RowValue.d1_5),
                      Row(RowName.MLCMaxOffsetA, RowValue.NA)>>
    /\ rec.keyed["MLCLeavesA"][11] = 150
    /\ rec.num["MaxOffsetA"] = DecimalMinusOne
    /\ rec.num["MeanOffsetA"] = 0

\* C24 as worded: every indexed leaf and backlash pattern is tested before
\* every generic offset and summary pattern (MaxOffsetA/B, MeanOffsetA/B,
\* MLCBacklashMax/Mean), and each row updates at most the field of the first
\* pattern contained in its name.
C24_IndexedBeforeEveryGeneric ==
    ( /\ caller = "extract" /\ pc = "extracted"
      /\ rec.variant = "Geo6xfffModel"
      /\ HasRows
      /\ \A i \in 1..Len(ExportRows) : ~ExportRows[i].short )
    => /\ \A i \in 1..Len(ExportRows) : \A k \in 1..Len(GeoChain) :
             GeoMatches(Strip(ExportRows[i].name), k)
             => GeoBranch(Strip(ExportRows[i].name)) = k
       /\ \A k, g \in 1..Len(GeoChain) :
             ( /\ GeoChain[k].kind \in {"leaf", "backlash"}
               /\ GeoChain[g].field \in
                     {"MaxOffsetA", "MaxOffsetB", "MeanOffsetA", "MeanOffsetB",
                      "MLCBacklashMaxA", "MLCBacklashMaxB",
                      "MLCBacklashMeanA", "MLCBacklashMeanB"} )
             => k < g


\* C25: in XML-form geometry extraction, an MLC leaf value of the SetBeam
\* bank A or bank B array that fails decimal parsing sets that leaf to the
\* sentinel -1 (the leaf is not left as it was), and the other values of the
\* array are assigned to their own leaf positions.
C25_UnparsableLeafIsSentinel ==
    ( /\ caller = "extract" /\ pc = "xml_extracted"
      /\ rec.variant = "Geo6xfffModel"
      /\ trace.caught = "none"
      /\ exists(files, Join(folder, Str.Results_xml))
      /\ exists(files, Join(folder, Str.SetBeam_6x_xml))
      /\ files[Join(folder, Str.SetBeam_6x_xml)].wellformed
      /\ files[Join(folder, Str.SetBeam_6x_xml)].linac )
    => \A bank \in {"A", "B"} :
       LET leaf_values == files[Join(folder, Str.SetBeam_6x_xml)][bank]
           coll == IF bank = "A" THEN "MLCLeavesA" ELSE "MLCLeavesB"
       IN \A idx \in 1..Len(leaf_values) :
             idx <= ExtractHi
             => /\ idx \in DOMAIN rec.keyed[coll]
                /\ rec.keyed[coll][idx] =
                      CASE leaf_values[idx] = RowValue.d1_5 -> 150
                        [] leaf_values[idx] = RowValue.m0_3 -> -30
                        [] leaf_values[idx] = RowValue.d0   -> 0
                        [] OTHER -> DecimalMinusOne


\* C30: in every state reachable by connect, upload and close calls on an
\* Uploader, Uploader.connected is True exactly when the adapter's connected
\* flag is True; after close() both are False, and after a failed connect()
\* both are False.
C30_ConnectedFlagsAgree ==
    /\ uploader.connected = uploader.db_adapter.connected
    /\ trace.call = "close" => ~uploader.connected
    /\ (trace.call = "connect" /\ trace.result = "False")
       => ~uploader.db_adapter.connected


\* C26: for each of the three model types, Uploader.upload of a
\* non-baseline record performs exactly one insert into the 'beam' table
\* and returns True exactly when that insert succeeded; when the uploader
\* is not connected it returns False and performs no insert.
C26_OneBeamInsertDecidesResult ==
    ( /\ trace.call = "upload"
      /\ rec.variant \in Variants
      /\ rec.baseline /= "True" )
    => LET beam == {i \in 1..Len(trace.inserts) :
                       trace.inserts[i].table = "beam"}
       IN IF trace.result = "False" /\ trace.inserts = <<>>
             /\ ~uploader.connected
          THEN TRUE
          ELSE /\ Cardinality(beam) = 1
               /\ trace.result = "True"
                  <=> \A i \in beam : trace.inserts[i].outcome = "data"


\* C21: every value of every row handed to a database insert, on the beam,
\* baseline, geocheck and MLC leaf and backlash paths, is normalized: no
\* Decimal, datetime or date reaches the client
C21_InsertedValuesAreNormalized ==
    caller = "upload"
    => \A i \in 1..Len(trace.inserts) :
          \A j \in 1..Len(trace.inserts[i].rows) :
             \A k \in DOMAIN trace.inserts[i].rows[j] :
                trace.inserts[i].rows[j][k].t
                   \notin {"Decimal", "datetime", "date"}

\* a beam row was inserted whose date left as an ISO string and whose
\* relative output left as a float
C21_Witness ==
    /\ caller = "upload" /\ trace.call = "upload"
    /\ \E i \in 1..Len(trace.inserts) :
          /\ trace.inserts[i].table = "beam"
          /\ LET row == trace.inserts[i].rows[1]
             IN /\ row["date"].t = "str" /\ Len(row["date"].v) = 19
                /\ row["relOutput"] = Py("float", 150)


\* C27: under the monitor, with the observer thread never starved, every
\* directory that holds a non-empty Results.csv is eventually handed to Run
\* (or removed first), also when the export arrives after the
\* directory-created event was handled
C27_ReadyFolderEventuallyProcessed ==
    \A f \in MonFolders :
       (caller = "monitor" /\ f \in trace.dirs /\ is_folder_ready(files, f))
       ~> (trace.runs[f] > 0 \/ f \notin trace.dirs)

C29_ProcessedOnlyAfterReadyRun ==
    caller = "monitor"
    => /\ (trace.last.handled > 0 /\ ~trace.last.was_processed)
          => ( folder \in processed_folders
               <=> (trace.last.ready /\ trace.last.ran /\ err = "none") )
       /\ \A f \in processed_folders : trace.runs[f] = trace.raised[f] + 1

\* a Run raised, its folder was left out of the set, and a later event for
\* the same path started Run again
C29_Witness ==
    /\ caller = "monitor"
    /\ trace.last.ran /\ err /= "none"
    /\ folder \notin processed_folders
    /\ trace.runs[folder] >= 2


====
